---- MODULE Spec2Model ----
(***************************************************************************)
(* Fixed-timestep simulation core of the platformer (GameCanvas):          *)
(* the requestAnimationFrame loop with its accumulator, updatePhysics      *)
(* (hit-stop, death check, timers, combat, dash, movement, jumping,        *)
(* movePlayer), updateEnemies, resolveEntityCollisions, damagePlayer, the  *)
(* respawn setTimeout callback, the keyboard InputSystem and the           *)
(* PhysicsProfile merge of App.handleUpdateProfile.                        *)
(*                                                                         *)
(* Numbers.  The code computes with IEEE doubles.  Lengths and speeds are  *)
(* kept here in fixed point, ten units per pixel (0.9 px is 9), and a      *)
(* product with a fractional factor is rounded toward zero to that unit.   *)
(* Frame timers are integers, except attackCooldownTimer, which the air    *)
(* launcher sets to 1.5 * attackCooldownFrames: it is kept in half-frames. *)
(* Real time is kept in thirds of a millisecond for the frame delta and    *)
(* in fifteenths of a millisecond for the accumulator, so that one tick    *)
(* (1000/60 ms) and a delta scaled by timeScale 0.2 are both integers.     *)
(*                                                                         *)
(* Not modelled: the purely cosmetic layers that never feed back into the  *)
(* simulation (particles, damage numbers, one-shot vfx, companion, camera, *)
(* animation frame counters, lean angle, colours).                         *)
(***************************************************************************)
EXTENDS Integers, Sequences, FiniteSets, TLC

VARIABLES
    gameState,        \* gameState.current: player, enemies, hitStopTimer, ...
    level,            \* the level prop: platforms, killPlaneY (immutable)
    physicsProfile,   \* App state physicsProfile, read by every tick
    inputState,       \* InputSystem.currentState
    accumulator,      \* perfRef.current.accumulator, in 1/15 ms
    isPaused,         \* isPausedRef.current
    respawnTimers,    \* number of pending respawn setTimeout callbacks
    pc,               \* "idle" between frames, "loop" inside loop()'s while
    frame,            \* bookkeeping of the current loop() call
    event,            \* the last external input delivered (history)
    ticks,            \* number of updatePhysics calls so far (history)
    events,           \* number of external inputs so far (history)
    airJumps,         \* double jumps since the player last touched ground (history)
    runTicks          \* ticks of the unbroken ground run from a standstill (history)

vars == <<gameState, level, physicsProfile, inputState, accumulator, isPaused,
          respawnTimers, pc, frame, event, ticks, events, airJumps,
          runTicks>>

----------------------------------------------------------------------------
(* Fixed point and small helpers *)

PX(n) == 10 * n

Abs(n) == IF n < 0 THEN -n ELSE n

Max(a, b) == IF a > b THEN a ELSE b

Min(a, b) == IF a < b THEN a ELSE b

Sign(n) == IF n > 0 THEN 1 ELSE IF n < 0 THEN -1 ELSE 0

\* v * num / den, rounded toward zero
Mul(v, num, den) == IF v >= 0 THEN (v * num) \div den ELSE -(((-v) * num) \div den)

\* variant: approach without the clamp at the target
approachPastTarget(val, target, maxMove) ==
    IF val > target THEN val - maxMove ELSE val + maxMove

approach(val, target, maxMove) ==
    IF val > target THEN Max(val - maxMove, target) ELSE Min(val + maxMove, target)

\* the object spread { ...prev, ...newValues }
MergeProfile(prev, newValues) ==
    [k \in DOMAIN prev \cup DOMAIN newValues |->
        IF k \in DOMAIN newValues THEN newValues[k] ELSE prev[k]]

\* the integer part of a square root in two passes: the multiple of 216 below
\* it, then the root itself (n < 46340 * 46340, the 32-bit range)
SqrtCoarse(n) ==
    CHOOSE h \in 0..214 :
        /\ (216 * h) * (216 * h) <= n
        /\ h = 214 \/ n < (216 * (h + 1)) * (216 * (h + 1))

SqrtFine(n, h) ==
    CHOOSE r \in (216 * h)..(216 * h + 215) : r * r <= n /\ n < (r + 1) * (r + 1)

\* Math.sqrt(dx * dx + dy * dy), rounded down
Length(dx, dy) == SqrtFine(dx * dx + dy * dy, SqrtCoarse(dx * dx + dy * dy))

\* dist(v1, v2) < r, for r >= 0, without the square root
DistLess(v1, v2, r) ==
    (v2.x - v1.x) * (v2.x - v1.x) + (v2.y - v1.y) * (v2.y - v1.y) < r * r

\* dist(v1, v2) > r * 1.5, for r >= 0
DistMoreThanOneAndHalf(v1, v2, r) ==
    4 * ((v2.x - v1.x) * (v2.x - v1.x) + (v2.y - v1.y) * (v2.y - v1.y)) > 9 * r * r

----------------------------------------------------------------------------
(* Program constants *)

PLAYER_W == PX(32)
PLAYER_H == PX(64)
PLAYER_MAX_HEALTH == 100
PLAYER_I_FRAMES == 90
RESPAWN_I_FRAMES == 60
DASH_LONG_COOLDOWN == 120
DASH_SHORT_COOLDOWN == 15
DASH_CHAIN_FRAMES == 60
ENEMY_HIT_FRAMES == 15
DUMMY_HEALTH == 5000
ATTACK_CHARGE == 40
ATTACK_DURATION == 20
MAX_DELTA_MS == 200
SLOWMO_MS == 1000

\* one tick, 1000/60 ms, in fifteenths of a millisecond
FIXED_TIMESTEP == 250

PATROL_SPEED == PX(2)
CHASE_SPEED == 45

\* samples of the places Math.random() gives a spawn, in percent of the zone
SpawnPercents == {0, 99}

\* samples of the offset (sin(t / 500) * 100, cos(t / 300) * 50) of a hover target
HoverOffsets == {[x |-> PX(100), y |-> PX(50)], [x |-> -PX(100), y |-> -PX(50)]}

Commands == {"LEFT", "RIGHT", "JUMP", "DOWN", "DASH", "ATTACK"}

AttackAnims == {"ATTACK", "ATTACK_B", "ATTACK_C", "ATTACK_AIR_A", "ATTACK_DASH_A"}

\* Math.random() draws of one tick: the finisher's crit roll per enemy and the
\* Walker's next attack cooldown, floor(60 + random * 120)
WalkerCooldowns == {60, 179}

----------------------------------------------------------------------------
(* Collision primitives *)

checkAABB(player, plat) ==
    /\ player.position.x < plat.x + plat.width
    /\ player.position.x + PLAYER_W > plat.x
    /\ player.position.y < plat.y + plat.height
    /\ player.position.y + PLAYER_H > plat.y

checkEntityAABB(entity, plat) ==
    /\ entity.position.x < plat.x + plat.width
    /\ entity.position.x + entity.width > plat.x
    /\ entity.position.y < plat.y + plat.height
    /\ entity.position.y + entity.height > plat.y

checkRectOverlap(p1, w1, h1, p2, w2, h2) ==
    /\ p1.x < p2.x + w2
    /\ p1.x + w1 > p2.x
    /\ p1.y < p2.y + h2
    /\ p1.y + h1 > p2.y

checkWallOverlap(player, platforms, dir) ==
    LET tx == IF dir > 0 THEN player.position.x + PLAYER_W
                         ELSE player.position.x - PX(2)
        ty == player.position.y + PX(4)
        tw == PX(2)
        th == PLAYER_H - PX(8)
    IN  \E i \in 1..Len(platforms) :
            /\ tx < platforms[i].x + platforms[i].width
            /\ tx + tw > platforms[i].x
            /\ ty < platforms[i].y + platforms[i].height
            /\ ty + th > platforms[i].y

----------------------------------------------------------------------------
(* movePlayer: swept movement in sub-steps of at most 10 px *)

\* Math.ceil(Math.sqrt(vx^2 + vy^2) / 10)
RECURSIVE StepsFrom(_, _)
StepsFrom(n, d2) ==
    IF PX(10) * n * PX(10) * n >= d2 THEN n ELSE StepsFrom(n + 1, d2)

MoveSteps(velocity) ==
    StepsFrom(0, velocity.x * velocity.x + velocity.y * velocity.y)

\* the inner loop over the platforms after position.x += stepVel.x;
\* dirx is the sign of stepVel.x
RECURSIVE ResolveX(_, _, _, _)
ResolveX(p, platforms, i, dirx) ==
    IF i > Len(platforms) THEN p
    ELSE LET plat == platforms[i]
             q == IF ~checkAABB(p, plat) THEN p
                  ELSE IF dirx > 0
                       THEN [p EXCEPT !.position.x = plat.x - PLAYER_W,
                                      !.velocity.x = 0]
                  ELSE IF dirx < 0
                       THEN [p EXCEPT !.position.x = plat.x + plat.width,
                                      !.velocity.x = 0]
                  ELSE p
         IN  ResolveX(q, platforms, i + 1, dirx)

\* the inner loop over the platforms after position.y += stepVel.y;
\* diry is the sign of stepVel.y
RECURSIVE ResolveY(_, _, _, _)
ResolveY(p, platforms, i, diry) ==
    IF i > Len(platforms) THEN p
    ELSE LET plat == platforms[i]
             q == IF ~checkAABB(p, plat) THEN p
                  ELSE IF diry > 0
                       THEN [p EXCEPT !.position.y = plat.y - PLAYER_H,
                                      !.velocity.y = 0,
                                      !.isGrounded = TRUE]
                  ELSE IF diry < 0
                       THEN [p EXCEPT !.position.y = plat.y + plat.height,
                                      !.velocity.y = 0]
                  ELSE p
         IN  ResolveY(q, platforms, i + 1, diry)

\* n sub-steps with the step velocity sv (fixed before the loop)
RECURSIVE SubSteps(_, _, _, _)
SubSteps(p, platforms, n, sv) ==
    IF n = 0 THEN p
    ELSE LET px == ResolveX([p EXCEPT !.position.x = @ + sv.x], platforms, 1, Sign(sv.dx))
             py == ResolveY([px EXCEPT !.position.y = @ + sv.y], platforms, 1, Sign(sv.dy))
         IN  SubSteps(py, platforms, n - 1, sv)

movePlayer(player, platforms) ==
    LET steps == MoveSteps(player.velocity)
        \* with steps = 0 the quotient is NaN and the loop body never runs
        sv == [x  |-> IF steps = 0 THEN 0 ELSE Mul(player.velocity.x, 1, steps),
               y  |-> IF steps = 0 THEN 0 ELSE Mul(player.velocity.y, 1, steps),
               dx |-> player.velocity.x,
               dy |-> player.velocity.y]
    IN  SubSteps([player EXCEPT !.isGrounded = FALSE], platforms, steps, sv)

----------------------------------------------------------------------------
(* updatePhysics, player part *)

\* 1. State management and timers
Timers(p, profile) ==
    LET \* dashCount after the dash-cooldown countdown
        c1 == IF p.dashCooldownTimer = 1 /\ p.dashCount >= profile.maxDashes
              THEN 0 ELSE p.dashCount
        \* dashCount after the chain countdown
        c2 == IF p.dashChainTimer = 1 /\ c1 < profile.maxDashes THEN 0 ELSE c1
    IN  [p EXCEPT !.dashTimer = IF @ > 0 THEN @ - 1 ELSE @,
                  !.dashCooldownTimer = IF @ > 0 THEN @ - 1 ELSE @,
                  !.attackTimer = IF @ > 0 THEN @ - 1 ELSE @,
                  \* half-frames: one frame is 2
                  !.attackCooldownTimer = IF @ > 0 THEN @ - 2 ELSE @,
                  !.dashChainTimer = IF @ > 0 THEN @ - 1 ELSE @,
                  !.dashCount = c2,
                  !.comboWindowTimer = IF @ > 0 THEN @ - 1 ELSE @,
                  !.comboDropTimer = IF @ > 0 THEN @ - 1 ELSE @,
                  !.comboCount = IF p.comboDropTimer = 1 THEN 0 ELSE @,
                  !.coyoteTimer = IF @ > 0 THEN @ - 1 ELSE @,
                  !.jumpBufferTimer = IF @ > 0 THEN @ - 1 ELSE @,
                  !.invincibilityTimer = IF @ > 0 THEN @ - 1 ELSE @]

\* Input buffering of the jump press
JumpBuffer(p, profile, input) ==
    [p EXCEPT !.jumpBufferTimer = IF input.JUMP /\ ~p.lastJumpInput
                                  THEN profile.jumpBufferFrames ELSE @,
              !.lastJumpInput = input.JUMP]

moveInputOf(input) ==
    (IF input.RIGHT THEN 1 ELSE 0) - (IF input.LEFT THEN 1 ELSE 0)

FacingDir(p) == IF p.facingRight THEN 1 ELSE -1

\* variant: the dash-attack chains like a standard attack
StartDashAttackChaining(p, profile) ==
    [p EXCEPT !.isDashing = FALSE,
              !.isAttacking = TRUE,
              !.attackTimer = profile.attackDurationFrames,
              !.attackCooldownTimer = 2 * profile.attackCooldownFrames,
              !.activeAnim = "ATTACK_DASH_A",
              !.velocity.x = FacingDir(p) * Mul(profile.dashSpeed, 8, 10),
              !.comboStep = IF p.comboWindowTimer > 0 THEN (@ + 1) % 3 ELSE 0,
              !.comboWindowTimer =
                  profile.attackCooldownFrames + profile.comboWindowFrames]

\* 2. Combat: the three ways a fresh ATTACK press starts an attack
StartDashAttack(p, profile) ==
    [p EXCEPT !.isDashing = FALSE,
              !.isAttacking = TRUE,
              !.attackTimer = profile.attackDurationFrames,
              !.attackCooldownTimer = 2 * profile.attackCooldownFrames,
              !.activeAnim = "ATTACK_DASH_A",
              !.velocity.x = FacingDir(p) * Mul(profile.dashSpeed, 8, 10)]

StartAirLauncher(p, profile) ==
    [p EXCEPT !.jumpBufferTimer = 0,
              !.isAttacking = TRUE,
              !.attackTimer = profile.attackDurationFrames,
              \* attackCooldownFrames * 1.5, in half-frames
              !.attackCooldownTimer = 3 * profile.attackCooldownFrames,
              !.activeAnim = "ATTACK_AIR_A",
              !.velocity.y = -profile.airLaunchForce,
              !.isGrounded = FALSE,
              !.canDoubleJump = TRUE]

\* variant: a press after the chain window closed keeps the old comboStep
StartStandardAttackNoReset(p, profile) ==
    LET step == IF p.comboWindowTimer > 0 THEN (p.comboStep + 1) % 3 ELSE p.comboStep
    IN  [p EXCEPT !.comboStep = step,
                  !.isAttacking = TRUE,
                  !.attackTimer = profile.attackDurationFrames,
                  !.attackCooldownTimer = 2 * profile.attackCooldownFrames,
                  !.activeAnim = IF step = 0 THEN "ATTACK"
                                 ELSE IF step = 1 THEN "ATTACK_B" ELSE "ATTACK_C",
                  !.velocity.x = FacingDir(p) * Mul(profile.attackLungeSpeed, 4, 10),
                  !.comboWindowTimer =
                      profile.attackCooldownFrames + profile.comboWindowFrames]

StartStandardAttack(p, profile) ==
    LET step == IF p.comboWindowTimer > 0 THEN (p.comboStep + 1) % 3 ELSE 0
    IN  [p EXCEPT !.comboStep = step,
                  !.isAttacking = TRUE,
                  !.attackTimer = profile.attackDurationFrames,
                  !.attackCooldownTimer = 2 * profile.attackCooldownFrames,
                  !.activeAnim = IF step = 0 THEN "ATTACK"
                                 ELSE IF step = 1 THEN "ATTACK_B" ELSE "ATTACK_C",
                  !.velocity.x = FacingDir(p) * Mul(profile.attackLungeSpeed, 4, 10),
                  !.comboWindowTimer =
                      profile.attackCooldownFrames + profile.comboWindowFrames]

AttackStart(p, profile, input) ==
    IF p.isDashing THEN StartDashAttack(p, profile)
    ELSE IF p.attackCooldownTimer = 0
         THEN IF input.JUMP THEN StartAirLauncher(p, profile)
                            ELSE StartStandardAttack(p, profile)
    ELSE p

\* the facing-oriented hitbox of the current attack
AttackHitbox(p) ==
    LET isLauncher == p.activeAnim = "ATTACK_AIR_A"
        isDashAttack == p.activeAnim = "ATTACK_DASH_A"
        hbW == IF ~isLauncher /\ isDashAttack THEN PX(100)
               ELSE PX(64) + p.comboStep * PX(10)
        hbY == IF isLauncher THEN p.position.y - PX(40)
               ELSE IF isDashAttack THEN p.position.y
               ELSE p.position.y - PX(10)
        hbH == IF isLauncher THEN PX(100) ELSE IF isDashAttack THEN PX(40) ELSE PX(64)
    IN  [x |-> IF p.facingRight THEN p.position.x + PX(32) ELSE p.position.x - hbW,
         y |-> hbY, width |-> hbW, height |-> hbH]

\* variant: the sword also finds the dead
EnemyInHitboxDeadOrAlive(hb, e) ==
    /\ hb.x < e.position.x + e.width
    /\ hb.x + hb.width > e.position.x
    /\ hb.y < e.position.y + e.height
    /\ hb.y + hb.height > e.position.y

EnemyInHitbox(hb, e) ==
    /\ ~e.isDead
    /\ hb.x < e.position.x + e.width
    /\ hb.x + hb.width > e.position.x
    /\ hb.y < e.position.y + e.height
    /\ hb.y + hb.height > e.position.y

\* 12 + comboCount * 0.5 px
BaseKnockback(p) == PX(12) + p.comboCount * 5

\* the body of the forEach for one enemy inside the hitbox
HitEnemy(e, p, profile, critRoll) ==
    LET isLauncher == p.activeAnim = "ATTACK_AIR_A"
        isDashAttack == p.activeAnim = "ATTACK_DASH_A"
        baseDamage == 25 + Min(p.comboCount, 10) * 5
        isCrit == (p.comboStep = 2 /\ critRoll) \/ isLauncher \/ isDashAttack
        finalDamage == IF isCrit THEN (baseDamage * 3) \div 2 ELSE baseDamage
        h1 == e.health - finalDamage
        h2 == IF h1 > DUMMY_HEALTH THEN e.maxHealth ELSE h1
        dir == FacingDir(p)
        vel == IF isLauncher
               THEN [x |-> dir * PX(2), y |-> -profile.enemyLaunchForce]
               ELSE IF isDashAttack
               THEN [x |-> dir * PX(20), y |-> -PX(2)]
               ELSE [x |-> dir * BaseKnockback(p), y |-> -PX(4)]
    IN  [e EXCEPT !.health = h2,
                  !.hitTimer = ENEMY_HIT_FRAMES,
                  !.velocity = vel,
                  !.state = IF e.maxHealth < DUMMY_HEALTH THEN "HIT" ELSE @,
                  !.isDead = IF h2 <= 0 THEN TRUE ELSE @]

\* variant: every hit of a standard attack freezes three frames
HitDetectionFlatFreeze(s, profile, crit) ==
    LET p == s.player
        hb == AttackHitbox(p)
        isLauncher == p.activeAnim = "ATTACK_AIR_A"
        isDashAttack == p.activeAnim = "ATTACK_DASH_A"
        special == isLauncher \/ isDashAttack
        hitLanded == \E i \in 1..Len(s.enemies) : EnemyInHitbox(hb, s.enemies[i])
        enemies2 == [i \in 1..Len(s.enemies) |->
                        IF EnemyInHitbox(hb, s.enemies[i])
                        THEN HitEnemy(s.enemies[i], p, profile, crit[i])
                        ELSE s.enemies[i]]
        knockbackForceApplied == IF special THEN 0 ELSE BaseKnockback(p)
        chaseSpeed == Max(Max(Abs(p.velocity.x), profile.attackLungeSpeed),
                          Mul(knockbackForceApplied, 105, 100))
        p2 == [p EXCEPT !.comboCount = @ + 1,
                        !.comboDropTimer = profile.comboKeepAliveFrames,
                        !.velocity.x = IF special THEN @ ELSE FacingDir(p) * chaseSpeed]
        freezeFrames == IF special THEN 8 ELSE 3
    IN  IF ~hitLanded THEN s
        ELSE [s EXCEPT !.player = p2,
                       !.enemies = enemies2,
                       !.hitStopTimer = freezeFrames,
                       !.timeScale = IF isDashAttack THEN 1 ELSE @,
                       !.slowMoTimer = IF isDashAttack THEN 3 * SLOWMO_MS ELSE @]

\* variant: the combo counter counts every enemy the swing strikes
HitDetectionCountingEnemies(s, profile, crit) ==
    LET p == s.player
        hb == AttackHitbox(p)
        isLauncher == p.activeAnim = "ATTACK_AIR_A"
        isDashAttack == p.activeAnim = "ATTACK_DASH_A"
        special == isLauncher \/ isDashAttack
        hitLanded == \E i \in 1..Len(s.enemies) : EnemyInHitbox(hb, s.enemies[i])
        enemies2 == [i \in 1..Len(s.enemies) |->
                        IF EnemyInHitbox(hb, s.enemies[i])
                        THEN HitEnemy(s.enemies[i], p, profile, crit[i])
                        ELSE s.enemies[i]]
        knockbackForceApplied == IF special THEN 0 ELSE BaseKnockback(p)
        chaseSpeed == Max(Max(Abs(p.velocity.x), profile.attackLungeSpeed),
                          Mul(knockbackForceApplied, 105, 100))
        p2 == [p EXCEPT !.comboCount = @ + Cardinality({i \in 1..Len(s.enemies) :
                                                       EnemyInHitbox(hb, s.enemies[i])}),
                        !.comboDropTimer = profile.comboKeepAliveFrames,
                        !.velocity.x = IF special THEN @ ELSE FacingDir(p) * chaseSpeed]
        freezeFrames == IF special THEN 8 ELSE IF p.comboStep = 2 THEN 10 ELSE 3
    IN  IF ~hitLanded THEN s
        ELSE [s EXCEPT !.player = p2,
                       !.enemies = enemies2,
                       !.hitStopTimer = freezeFrames,
                       !.timeScale = IF isDashAttack THEN 1 ELSE @,
                       !.slowMoTimer = IF isDashAttack THEN 3 * SLOWMO_MS ELSE @]

\* hit detection: runs inside the press-edge block whenever isAttacking
HitDetection(s, profile, crit) ==
    LET p == s.player
        hb == AttackHitbox(p)
        isLauncher == p.activeAnim = "ATTACK_AIR_A"
        isDashAttack == p.activeAnim = "ATTACK_DASH_A"
        special == isLauncher \/ isDashAttack
        hitLanded == \E i \in 1..Len(s.enemies) : EnemyInHitbox(hb, s.enemies[i])
        enemies2 == [i \in 1..Len(s.enemies) |->
                        IF EnemyInHitbox(hb, s.enemies[i])
                        THEN HitEnemy(s.enemies[i], p, profile, crit[i])
                        ELSE s.enemies[i]]
        knockbackForceApplied == IF special THEN 0 ELSE BaseKnockback(p)
        chaseSpeed == Max(Max(Abs(p.velocity.x), profile.attackLungeSpeed),
                          Mul(knockbackForceApplied, 105, 100))
        p2 == [p EXCEPT !.comboCount = @ + 1,
                        !.comboDropTimer = profile.comboKeepAliveFrames,
                        !.velocity.x = IF special THEN @ ELSE FacingDir(p) * chaseSpeed]
        freezeFrames == IF special THEN 8 ELSE IF p.comboStep = 2 THEN 10 ELSE 3
    IN  IF ~hitLanded THEN s
        ELSE [s EXCEPT !.player = p2,
                       !.enemies = enemies2,
                       !.hitStopTimer = freezeFrames,
                       !.timeScale = IF isDashAttack THEN 1 ELSE @,
                       !.slowMoTimer = IF isDashAttack THEN 3 * SLOWMO_MS ELSE @]

\* the press-edge block: start an attack, then detect hits while isAttacking
AttackPress(s, profile, input, crit) ==
    LET started == [s EXCEPT !.player = AttackStart(@, profile, input)]
    IN  IF AttackStart(s.player, profile, input).isAttacking
        THEN HitDetection(started, profile, crit)
        ELSE started

\* lastAttackInput = input.ATTACK; isAttacking drops once attackTimer is out
CombatEnd(s, input) ==
    [s EXCEPT !.player.lastAttackInput = input.ATTACK,
              !.player.isAttacking = IF s.player.attackTimer <= 0 THEN FALSE ELSE @]

Combat(s, profile, input, crit) ==
    CombatEnd(IF input.ATTACK /\ ~s.player.lastAttackInput
              THEN AttackPress(s, profile, input, crit)
              ELSE s,
              input)

\* variant: the dash start grants no invincibility
DashStartWithoutIFrames(p, profile, input) ==
    LET moveInput == moveInputOf(input)
        dashDir == IF moveInput # 0 THEN moveInput ELSE FacingDir(p)
        count == p.dashCount + 1
        p1 == IF input.DASH /\ ~p.lastDashInput /\ ~p.isDashing
                 /\ p.dashCooldownTimer = 0 /\ p.dashCount < profile.maxDashes
              THEN [p EXCEPT !.isDashing = TRUE,
                             !.dashTimer = profile.dashDurationFrames,
                             !.dashCount = count,
                             !.dashCooldownTimer = IF count >= profile.maxDashes
                                                   THEN DASH_LONG_COOLDOWN
                                                   ELSE DASH_SHORT_COOLDOWN,
                             !.dashChainTimer = DASH_CHAIN_FRAMES,
                             !.velocity = [x |-> dashDir * profile.dashSpeed, y |-> 0]]
              ELSE p
    IN  [p1 EXCEPT !.lastDashInput = input.DASH]

\* 3. Dash: a fresh DASH press with the cooldown elapsed and a charge left
DashStart(p, profile, input) ==
    LET moveInput == moveInputOf(input)
        dashDir == IF moveInput # 0 THEN moveInput ELSE FacingDir(p)
        count == p.dashCount + 1
        p1 == IF input.DASH /\ ~p.lastDashInput /\ ~p.isDashing
                 /\ p.dashCooldownTimer = 0 /\ p.dashCount < profile.maxDashes
              THEN [p EXCEPT !.isDashing = TRUE,
                             !.dashTimer = profile.dashDurationFrames,
                             !.invincibilityTimer = profile.dashDurationFrames,
                             !.dashCount = count,
                             !.dashCooldownTimer = IF count >= profile.maxDashes
                                                   THEN DASH_LONG_COOLDOWN
                                                   ELSE DASH_SHORT_COOLDOWN,
                             !.dashChainTimer = DASH_CHAIN_FRAMES,
                             !.velocity = [x |-> dashDir * profile.dashSpeed, y |-> 0]]
              ELSE p
    IN  [p1 EXCEPT !.lastDashInput = input.DASH]

\* the dash ended this tick: dashTimer ran out while isDashing
DashEnd(p) ==
    [p EXCEPT !.isDashing = FALSE, !.velocity.x = Mul(@, 6, 10)]

\* 4. Horizontal movement
Horizontal(p, profile, input) ==
    LET moveInput == moveInputOf(input)
        targetSpeed == moveInput * profile.runSpeed
    IN  IF p.isAttacking /\ p.isGrounded
        THEN [p EXCEPT !.velocity.x = approach(@, 0, Mul(profile.groundDecel, 1, 2))]
        ELSE [p EXCEPT
                !.velocity.x =
                    IF p.isGrounded
                    THEN IF moveInput # 0
                         THEN approach(@, targetSpeed, profile.groundAccel)
                         ELSE approach(@, 0, profile.groundDecel)
                    ELSE IF moveInput # 0
                         THEN approach(@, targetSpeed, profile.airAccel)
                         ELSE approach(@, 0, profile.airDecel),
                !.facingRight = IF moveInput # 0 /\ ~p.isDashing
                                THEN moveInput > 0 ELSE @]

\* 5. Wall probe, wall slide and gravity
WallAndGravity(p, profile, input, platforms) ==
    LET moveInput == moveInputOf(input)
        wallDir == IF checkWallOverlap(p, platforms, 1) THEN 1
                   ELSE IF checkWallOverlap(p, platforms, -1) THEN -1 ELSE 0
        sliding == /\ wallDir # 0 /\ ~p.isGrounded /\ p.velocity.y > 0
                   /\ \/ wallDir = 1 /\ moveInput >= 0
                      \/ wallDir = -1 /\ moveInput <= 0
        fast == input.DOWN /\ p.velocity.y > -PX(5)
        appliedGravity == IF fast THEN Mul(profile.gravity, 5, 2) ELSE profile.gravity
        appliedTerminal == IF fast THEN Mul(profile.terminalVelocity, 3, 2)
                                   ELSE profile.terminalVelocity
    IN  [p EXCEPT !.wallDir = wallDir,
                  !.isWallSliding = sliding,
                  !.velocity.y =
                      IF sliding
                      THEN IF @ > profile.wallSlideSpeed
                           THEN approach(@, profile.wallSlideSpeed, 5) ELSE @
                      ELSE Min(@ + appliedGravity, appliedTerminal)]

\* variant: the double jump does not look at its charge
JumpBranchFreeDouble(p) ==
    IF p.jumpBufferTimer > 0 /\ p.isWallSliding THEN "wall"
    ELSE IF p.jumpBufferTimer > 0 /\ (p.isGrounded \/ p.coyoteTimer > 0) THEN "ground"
    ELSE IF p.jumpBufferTimer > 0 /\ ~p.isGrounded /\ ~p.isWallSliding THEN "double"
    ELSE "none"

\* 6. Jumping: the three branches, in the order of the if / else if chain
JumpBranch(p) ==
    IF p.jumpBufferTimer > 0 /\ p.isWallSliding THEN "wall"
    ELSE IF p.jumpBufferTimer > 0 /\ (p.isGrounded \/ p.coyoteTimer > 0) THEN "ground"
    ELSE IF p.jumpBufferTimer > 0 /\ p.canDoubleJump /\ ~p.isGrounded /\ ~p.isWallSliding
         THEN "double"
    ELSE "none"

\* variant: the ground jump leaves the jump buffer running
JumpImpulseKeepingBuffer(p, profile) ==
    IF JumpBranch(p) = "wall"
    THEN [p EXCEPT !.jumpBufferTimer = 0,
                   !.isWallSliding = FALSE,
                   !.canDoubleJump = TRUE,
                   !.velocity = [x |-> (-p.wallDir) * profile.wallJumpForce.x,
                                 y |-> -profile.wallJumpForce.y],
                   !.facingRight = (-p.wallDir) > 0]
    ELSE IF JumpBranch(p) = "ground"
    THEN [p EXCEPT !.coyoteTimer = 0,
                   !.isGrounded = FALSE,
                   !.isJumping = TRUE,
                   !.canDoubleJump = TRUE,
                   !.velocity.y = -profile.jumpForce]
    ELSE IF JumpBranch(p) = "double"
    THEN [p EXCEPT !.jumpBufferTimer = 0,
                   !.canDoubleJump = FALSE,
                   !.isJumping = TRUE,
                   !.velocity.y = -profile.doubleJumpForce]
    ELSE p

\* the branch of the chain that fires, with the impulse it gives
JumpImpulse(p, profile) ==
    IF JumpBranch(p) = "wall"
    THEN [p EXCEPT !.jumpBufferTimer = 0,
                   !.isWallSliding = FALSE,
                   !.canDoubleJump = TRUE,
                   !.velocity = [x |-> (-p.wallDir) * profile.wallJumpForce.x,
                                 y |-> -profile.wallJumpForce.y],
                   !.facingRight = (-p.wallDir) > 0]
    ELSE IF JumpBranch(p) = "ground"
    THEN [p EXCEPT !.jumpBufferTimer = 0,
                   !.coyoteTimer = 0,
                   !.isGrounded = FALSE,
                   !.isJumping = TRUE,
                   !.canDoubleJump = TRUE,
                   !.velocity.y = -profile.jumpForce]
    ELSE IF JumpBranch(p) = "double"
    THEN [p EXCEPT !.jumpBufferTimer = 0,
                   !.canDoubleJump = FALSE,
                   !.isJumping = TRUE,
                   !.velocity.y = -profile.doubleJumpForce]
    ELSE p

\* variable jump height: releasing JUMP while rising cuts the velocity
JumpCut(p, profile, input) ==
    IF ~input.JUMP /\ p.isJumping /\ p.velocity.y < 0
    THEN [p EXCEPT !.velocity.y = Mul(@, profile.jumpCutMultiplier, 100),
                   !.isJumping = FALSE]
    ELSE p

Jumping(p, profile, input) == JumpCut(JumpImpulse(p, profile), profile, input)

\* variant: landing refreshes the coyote window only
LandingKeepingJumpArc(p, profile) ==
    IF p.isGrounded
    THEN [p EXCEPT !.coyoteTimer = profile.coyoteFrames,
                   !.respawnPosition = IF Abs(p.velocity.x) < 1 THEN p.position ELSE @]
    ELSE p

\* 7. after movePlayer: landing bookkeeping
Landing(p, profile) ==
    IF p.isGrounded
    THEN [p EXCEPT !.coyoteTimer = profile.coyoteFrames,
                   !.isJumping = FALSE,
                   !.isWallSliding = FALSE,
                   !.canDoubleJump = TRUE,
                   \* Math.abs(velocity.x) < 0.1
                   !.respawnPosition = IF Abs(p.velocity.x) < 1 THEN p.position ELSE @]
    ELSE p

\* 9. the animation the tick ends with (frame counters are not modelled)
NextAnim(p) ==
    IF p.isAttacking
    THEN IF p.activeAnim = "ATTACK_AIR_A" THEN "ATTACK_AIR_A"
         ELSE IF p.activeAnim = "ATTACK_DASH_A" THEN "ATTACK_DASH_A"
         ELSE IF p.comboStep = 0 THEN "ATTACK"
         ELSE IF p.comboStep = 1 THEN "ATTACK_B"
         ELSE "ATTACK_C"
    ELSE IF p.isDashing THEN "DASH"
    ELSE IF p.isWallSliding THEN "WALL_SLIDE"
    ELSE IF ~p.isGrounded THEN (IF p.velocity.y < 0 THEN "JUMP" ELSE "FALL")
    ELSE IF Abs(p.velocity.x) > 5 THEN "RUN"
    ELSE "IDLE"

----------------------------------------------------------------------------
(* damagePlayer and updateEnemies *)

\* variant: damagePlayer without the combo reset
damagePlayerKeepingCombo(player, amount, sourceX) ==
    [player EXCEPT !.health = @ - amount,
                   !.invincibilityTimer = PLAYER_I_FRAMES,
                   !.velocity = [x |-> IF player.position.x > sourceX
                                       THEN PX(10) ELSE -PX(10),
                                 y |-> -PX(5)]]

damagePlayer(player, amount, sourceX) ==
    [player EXCEPT !.health = @ - amount,
                   !.invincibilityTimer = PLAYER_I_FRAMES,
                   !.comboCount = 0,
                   !.velocity = [x |-> IF player.position.x > sourceX
                                       THEN PX(10) ELSE -PX(10),
                                 y |-> -PX(5)]]

\* the loop over the platforms after position.y += velocity.y (ground only)
RECURSIVE EnemyLand(_, _, _)
EnemyLand(e, platforms, i) ==
    IF i > Len(platforms) THEN e
    ELSE LET plat == platforms[i]
             q == IF checkEntityAABB(e, plat) /\ e.velocity.y > 0
                  THEN [e EXCEPT !.position.y = plat.y - e.height, !.velocity.y = 0]
                  ELSE e
         IN  EnemyLand(q, platforms, i + 1)

\* variant: the hit timer is not counted down
EnemyTimersKeepingHitTimer(e) ==
    [e EXCEPT !.attackCooldownTimer = IF @ > 0 THEN @ - 1 ELSE @,
              !.attackDurationTimer = IF @ > 0 THEN @ - 1 ELSE @]

EnemyTimers(e) ==
    [e EXCEPT !.hitTimer = IF @ > 0 THEN @ - 1 ELSE @,
              !.attackCooldownTimer = IF @ > 0 THEN @ - 1 ELSE @,
              !.attackDurationTimer = IF @ > 0 THEN @ - 1 ELSE @]

\* position.y += velocity.y
EnemyStepY(e) == [e EXCEPT !.position.y = @ + e.velocity.y]

\* position.x += velocity.x
EnemyStepX(e) == [e EXCEPT !.position.x = @ + e.velocity.x]

\* training dummy physics (maxHealth > 5000)
DummyUpdate(e, profile, platforms) ==
    EnemyStepX(EnemyLand(EnemyStepY([e EXCEPT !.velocity.x = Mul(@, 85, 100),
                                              !.velocity.y = @ + profile.gravity]),
                         platforms, 1))

\* variant: the switch with the attack also starting from PATROL
WalkerStateAttackingFromPatrol(e, player, cooldown) ==
    IF e.state = "PATROL"
          /\ ~(e.detectionRange > 0
               /\ DistLess(e.position, player.position, e.detectionRange))
    THEN e
    ELSE IF e.state \in {"PATROL", "CHASE"}
    THEN IF DistMoreThanOneAndHalf(e.position, player.position, e.detectionRange)
         THEN [e EXCEPT !.state = "PATROL"]
         ELSE IF e.attackRange > 0
                 /\ DistLess(e.position, player.position, e.attackRange)
                 /\ e.attackCooldownTimer <= 0
         THEN [e EXCEPT !.state = "ATTACK",
                        !.velocity.x = 0,
                        !.chargeTimer = ATTACK_CHARGE,
                        !.attackDurationTimer = 0]
         ELSE [e EXCEPT !.state = "CHASE"]
    ELSE IF e.state = "ATTACK"
    THEN IF e.chargeTimer > 0
         THEN [e EXCEPT !.chargeTimer = @ - 1,
                        !.attackDurationTimer =
                            IF e.chargeTimer - 1 = 0 THEN ATTACK_DURATION ELSE @]
         ELSE IF e.attackDurationTimer <= 0
         THEN [e EXCEPT !.state = "CHASE", !.attackCooldownTimer = cooldown]
         ELSE e
    ELSE IF e.state = "HIT"
    THEN IF e.hitTimer <= 0 THEN [e EXCEPT !.state = "CHASE"] ELSE e
    ELSE e

\* Walker: the switch over enemy.state
WalkerState(e, player, cooldown) ==
    IF e.state = "PATROL"
    THEN IF e.detectionRange > 0 /\ DistLess(e.position, player.position, e.detectionRange)
         THEN [e EXCEPT !.state = "CHASE"] ELSE e
    ELSE IF e.state = "CHASE"
    THEN IF DistMoreThanOneAndHalf(e.position, player.position, e.detectionRange)
         THEN [e EXCEPT !.state = "PATROL"]
         ELSE IF e.attackRange > 0
                 /\ DistLess(e.position, player.position, e.attackRange)
                 /\ e.attackCooldownTimer <= 0
         THEN [e EXCEPT !.state = "ATTACK",
                        !.velocity.x = 0,
                        !.chargeTimer = ATTACK_CHARGE,
                        !.attackDurationTimer = 0]
         ELSE e
    ELSE IF e.state = "ATTACK"
    THEN IF e.chargeTimer > 0
         THEN [e EXCEPT !.chargeTimer = @ - 1,
                        !.attackDurationTimer =
                            IF e.chargeTimer - 1 = 0 THEN ATTACK_DURATION ELSE @]
         ELSE IF e.attackDurationTimer <= 0
         THEN [e EXCEPT !.state = "CHASE", !.attackCooldownTimer = cooldown]
         ELSE e
    ELSE IF e.state = "HIT"
    THEN IF e.hitTimer <= 0 THEN [e EXCEPT !.state = "CHASE"] ELSE e
    ELSE e

\* Walker: horizontal velocity by state
WalkerSteer(e, player) ==
    IF e.state = "PATROL" /\ e.patrolRange > 0
    THEN IF e.facingRight
         THEN [e EXCEPT !.velocity.x = PATROL_SPEED,
                        !.facingRight =
                            ~(e.position.x > e.patrolOriginX + e.patrolRange)]
         ELSE [e EXCEPT !.velocity.x = -PATROL_SPEED,
                        !.facingRight = e.position.x < e.patrolOriginX - e.patrolRange]
    ELSE IF e.state = "CHASE"
    THEN LET dir == IF player.position.x > e.position.x THEN 1 ELSE -1
         IN  [e EXCEPT !.velocity.x = dir * CHASE_SPEED, !.facingRight = dir > 0]
    ELSE IF e.state = "ATTACK" \/ (e.state = "IDLE" /\ e.patrolRange = 0)
    THEN [e EXCEPT !.velocity.x = 0]
    ELSE IF e.state = "HIT"
    THEN [e EXCEPT !.velocity.x = Mul(@, 9, 10)]
    ELSE e

\* variant: the swing is live on every frame of its duration
WalkerSwingHitsAnyFrame(e, player) ==
    /\ e.state = "ATTACK"
    /\ e.chargeTimer = 0
    /\ e.attackDurationTimer > 0
    /\ checkRectOverlap(player.position, PLAYER_W, PLAYER_H,
                        [x |-> IF e.facingRight THEN e.position.x + e.width
                                                ELSE e.position.x - PX(50),
                         y |-> e.position.y],
                        PX(50), e.height)

\* Walker: the melee swing reaches the player (the caller gates on i-frames)
WalkerSwingHits(e, player) ==
    /\ e.state = "ATTACK"
    /\ e.chargeTimer = 0
    /\ e.attackDurationTimer < 18
    /\ e.attackDurationTimer > 5
    /\ checkRectOverlap(player.position, PLAYER_W, PLAYER_H,
                        [x |-> IF e.facingRight THEN e.position.x + e.width
                                                ELSE e.position.x - PX(50),
                         y |-> e.position.y],
                        PX(50), e.height)

WalkerMove(e, profile, platforms) ==
    EnemyStepX(EnemyLand(EnemyStepY([e EXCEPT !.velocity.y = @ + profile.gravity]),
                         platforms, 1))

\* variant: the swing without the test of the player's i-frames
WalkerAttackThroughIFrames(e, player) ==
    [enemy  |-> e,
     player |-> IF ~player.isDead /\ WalkerSwingHits(e, player)
                THEN damagePlayer(player, 15, e.position.x)
                ELSE player]

\* the Walker after its move, and the player after its swing
WalkerAttack(e, player) ==
    [enemy  |-> e,
     player |-> IF /\ player.invincibilityTimer = 0
                   /\ ~player.isDead
                   /\ WalkerSwingHits(e, player)
                THEN damagePlayer(player, 15, e.position.x)
                ELSE player]

\* Flyer, CHASE: spring toward a point hovering around the player, then the
\* attack trigger; hover is the offset the clock gives the point on this tick
FlyerHover(e, player, hover) ==
    IF e.attackCooldownTimer <= 0 /\ DistLess(e.position, player.position, e.attackRange)
    THEN [e EXCEPT !.state = "ATTACK", !.chargeTimer = 60,
                   !.velocity = [x |-> 0, y |-> 0]]
    ELSE [e EXCEPT
            !.velocity.x =
                Mul(@ + Mul(player.position.x + hover.x - e.position.x, 5, 1000),
                    95, 100),
            !.velocity.y =
                Mul(@ + Mul(player.position.y - PX(150) + hover.y - e.position.y,
                            5, 1000),
                    95, 100)]

\* 15 px per tick along the direction (dx, dy); atan2(0, 0) is 0
DiveVelocity(dx, dy) ==
    IF dx = 0 /\ dy = 0 THEN [x |-> PX(15), y |-> 0]
    ELSE [x |-> Mul(dx, PX(15), Length(dx, dy)),
          y |-> Mul(dy, PX(15), Length(dx, dy))]

\* Flyer, ATTACK with chargeTimer > 0: aim at the player and count down
FlyerCharge(e, player) ==
    [e EXCEPT !.velocity = DiveVelocity(player.position.x - e.position.x,
                                        player.position.y - e.position.y),
              !.chargeTimer = @ - 1,
              !.attackDurationTimer = IF e.chargeTimer - 1 = 0 THEN 30 ELSE @]

\* Flyer, dive phase: the hit test behind the i-frame gate
FlyerDiveHits(e, player) ==
    /\ player.invincibilityTimer = 0
    /\ ~player.isDead
    /\ checkRectOverlap(player.position, PLAYER_W, PLAYER_H,
                        e.position, e.width, e.height)

\* the dive ends on its last frame (a hit has set the timer to 0 before)
FlyerDiveEnd(e) ==
    IF e.attackDurationTimer = 1
    THEN [e EXCEPT !.state = "CHASE", !.attackCooldownTimer = 120]
    ELSE e

FlyerDive(e, player) ==
    IF FlyerDiveHits(e, player)
    THEN [enemy  |-> FlyerDiveEnd([e EXCEPT !.attackDurationTimer = 0]),
          player |-> damagePlayer(player, 20, e.position.x)]
    ELSE [enemy |-> FlyerDiveEnd(e), player |-> player]

\* Flyer: the switch over enemy.state
FlyerState(e, player, hover) ==
    IF e.state = "CHASE"
    THEN [enemy |-> FlyerHover(e, player, hover), player |-> player]
    ELSE IF e.state = "ATTACK"
    THEN IF e.chargeTimer > 0
         THEN [enemy |-> FlyerCharge(e, player), player |-> player]
         ELSE IF e.attackDurationTimer > 0 THEN FlyerDive(e, player)
         ELSE [enemy |-> e, player |-> player]
    ELSE IF e.state = "HIT"
    THEN [enemy |-> [e EXCEPT !.velocity.x = Mul(@, 9, 10),
                              !.velocity.y = Mul(@, 9, 10),
                              !.state = IF e.hitTimer <= 0 THEN "CHASE" ELSE @],
          player |-> player]
    ELSE [enemy |-> e, player |-> player]

\* a diving Flyer that runs into a platform is dazed
FlyerCrash(e) ==
    IF e.state = "ATTACK" /\ e.attackDurationTimer > 0
    THEN [e EXCEPT !.state = "CHASE", !.attackDurationTimer = 0,
                   !.attackCooldownTimer = 60]
    ELSE e

FlyerBlockX(e, plat) ==
    FlyerCrash([e EXCEPT !.position.x = IF e.velocity.x > 0 THEN plat.x - e.width
                                        ELSE IF e.velocity.x < 0 THEN plat.x + plat.width
                                        ELSE @,
                         !.velocity.x = 0])

FlyerBlockY(e, plat) ==
    FlyerCrash([e EXCEPT !.position.y = IF e.velocity.y > 0 THEN plat.y - e.height
                                        ELSE IF e.velocity.y < 0 THEN plat.y + plat.height
                                        ELSE @,
                         !.velocity.y = 0])

\* the loops over the (solid) platforms after each axis step
RECURSIVE FlyerCollideX(_, _, _)
FlyerCollideX(e, platforms, i) ==
    IF i > Len(platforms) THEN e
    ELSE FlyerCollideX(IF checkEntityAABB(e, platforms[i])
                       THEN FlyerBlockX(e, platforms[i]) ELSE e,
                       platforms, i + 1)

RECURSIVE FlyerCollideY(_, _, _)
FlyerCollideY(e, platforms, i) ==
    IF i > Len(platforms) THEN e
    ELSE FlyerCollideY(IF checkEntityAABB(e, platforms[i])
                       THEN FlyerBlockY(e, platforms[i]) ELSE e,
                       platforms, i + 1)

FlyerMove(e, platforms) ==
    FlyerCollideY(EnemyStepY(FlyerCollideX(EnemyStepX(e), platforms, 1)),
                  platforms, 1)

\* r is the enemy and the player after an AI switch; the enemy then moves
WithFlyerMoved(r, platforms) == [r EXCEPT !.enemy = FlyerMove(@, platforms)]

FlyerUpdate(e, player, platforms, hover) ==
    WithFlyerMoved(FlyerState(e, player, hover), platforms)

\* the centre of the player's hitbox
PlayerCenter(player) ==
    [x |-> player.position.x + PLAYER_W \div 2,
     y |-> player.position.y + PLAYER_H \div 2]

\* enemy.laserData === undefined
NoLaser == [defined |-> FALSE, targetX |-> 0, targetY |-> 0, isFiring |-> FALSE]

\* Turret, CHASE: walk toward the player, stop in range, start the charge
TurretChase(e, player) ==
    IF /\ DistLess(e.position, player.position, e.attackRange)
       /\ Abs(e.position.y - player.position.y) < PX(100)
    THEN IF e.attackCooldownTimer <= 0
         THEN [e EXCEPT !.velocity.x = 0,
                        !.state = "ATTACK",
                        !.chargeTimer = 90,
                        !.laserData = [defined |-> TRUE,
                                       targetX |-> PlayerCenter(player).x,
                                       targetY |-> PlayerCenter(player).y,
                                       isFiring |-> FALSE]]
         ELSE [e EXCEPT !.velocity.x = 0]
    ELSE IF player.position.x > e.position.x
    THEN [e EXCEPT !.velocity.x = Mul(PATROL_SPEED, 1, 2), !.facingRight = TRUE]
    ELSE [e EXCEPT !.velocity.x = -Mul(PATROL_SPEED, 1, 2), !.facingRight = FALSE]

\* Turret, charging: the aim follows the player until 30 frames before the shot
TurretCharge(e, player) ==
    [e EXCEPT
        !.velocity.x = 0,
        !.chargeTimer = @ - 1,
        !.laserData.targetX =
            IF e.chargeTimer - 1 > 30 /\ e.laserData.defined
            THEN @ + Mul(PlayerCenter(player).x - @, 1, 10) ELSE @,
        !.laserData.targetY =
            IF e.chargeTimer - 1 > 30 /\ e.laserData.defined
            THEN @ + Mul(PlayerCenter(player).y - @, 1, 10) ELSE @,
        !.laserData.isFiring =
            IF e.chargeTimer - 1 = 0 /\ e.laserData.defined THEN TRUE ELSE @,
        !.attackDurationTimer = IF e.chargeTimer - 1 = 0 THEN 10 ELSE @]

\* the point of the beam (from o along (dx, dy), 1000 px long) nearest to p
BeamNearest(p, o, dx, dy) ==
    IF dx = 0 /\ dy = 0
    THEN [x |-> o.x + Max(0, Min(PX(1000), p.x - o.x)), y |-> o.y]
    ELSE [x |-> o.x + Mul(dx,
                          Max(0, Min(PX(1000),
                                     Mul((p.x - o.x) * dx + (p.y - o.y) * dy, 1,
                                         Length(dx, dy)))),
                          Length(dx, dy)),
          y |-> o.y + Mul(dy,
                          Max(0, Min(PX(1000),
                                     Mul((p.x - o.x) * dx + (p.y - o.y) * dy, 1,
                                         Length(dx, dy)))),
                          Length(dx, dy))]

\* the beam's origin on the turret
BeamOrigin(e) == [x |-> e.position.x + e.width \div 2, y |-> e.position.y + PX(10)]

\* Turret, firing: distToSegment(pCenter, origin, beamEnd) < 30 behind the gate
TurretBeamHits(e, player) ==
    /\ player.invincibilityTimer = 0
    /\ ~player.isDead
    /\ e.laserData.defined
    /\ DistLess(PlayerCenter(player),
                BeamNearest(PlayerCenter(player), BeamOrigin(e),
                            e.laserData.targetX - BeamOrigin(e).x,
                            e.laserData.targetY - BeamOrigin(e).y),
                PX(30))

\* the burst ends on its last frame
TurretFireEnd(e) ==
    IF e.attackDurationTimer = 1
    THEN [e EXCEPT !.state = "CHASE", !.attackCooldownTimer = 180,
                   !.laserData = NoLaser]
    ELSE e

TurretFire(e, player) ==
    [enemy  |-> TurretFireEnd([e EXCEPT !.velocity.x = 0]),
     player |-> IF TurretBeamHits(e, player)
                THEN damagePlayer(player, 25, e.position.x) ELSE player]

\* Turret: the switch over enemy.state
TurretState(e, player) ==
    IF e.state = "CHASE"
    THEN [enemy |-> TurretChase(e, player), player |-> player]
    ELSE IF e.state = "ATTACK"
    THEN IF e.chargeTimer > 0
         THEN [enemy |-> TurretCharge(e, player), player |-> player]
         ELSE IF e.attackDurationTimer > 0 THEN TurretFire(e, player)
         ELSE [enemy |-> [e EXCEPT !.velocity.x = 0], player |-> player]
    ELSE IF e.state = "HIT"
    THEN [enemy |-> [e EXCEPT !.state = IF e.hitTimer <= 0 THEN "CHASE" ELSE @],
          player |-> player]
    ELSE [enemy |-> e, player |-> player]

\* gravity, the ground-only platform loop and the horizontal step
WithTurretMoved(r, profile, platforms) ==
    [r EXCEPT !.enemy = WalkerMove(@, profile, platforms)]

TurretUpdate(e, player, profile, platforms) ==
    WithTurretMoved(TurretState(e, player), profile, platforms)

\* a live enemy after its timers: dummy, Flyer, Turret or Walker
LiveEnemyUpdate(e, player, profile, platforms, cooldown, hover) ==
    IF e.maxHealth > DUMMY_HEALTH
    THEN [enemy |-> DummyUpdate(e, profile, platforms), player |-> player]
    ELSE IF e.type = "FLYER" THEN FlyerUpdate(e, player, platforms, hover)
    ELSE IF e.type = "TURRET" THEN TurretUpdate(e, player, profile, platforms)
    ELSE WalkerAttack(WalkerMove(WalkerSteer(WalkerState(e, player, cooldown), player),
                                 profile, platforms),
                      player)

\* one iteration of the forEach: the enemy and the player after it
EnemyUpdate(e, player, profile, platforms, cooldown, hover) ==
    IF e.isDead THEN [enemy |-> e, player |-> player]
    ELSE LiveEnemyUpdate(EnemyTimers(e), player, profile, platforms, cooldown, hover)

\* write one iteration's result back
WithEnemy(s, i, r) == [s EXCEPT !.enemies[i] = r.enemy, !.player = r.player]

\* rnd holds the tick's random and clock-dependent draws
RECURSIVE EnemiesFrom(_, _, _, _, _)
EnemiesFrom(s, i, profile, platforms, rnd) ==
    IF i > Len(s.enemies) THEN s
    ELSE EnemiesFrom(WithEnemy(s, i, EnemyUpdate(s.enemies[i], s.player, profile,
                                                 platforms, rnd.cooldown[i],
                                                 rnd.hover)),
                     i + 1, profile, platforms, rnd)

updateEnemies(s, profile, platforms, rnd) ==
    EnemiesFrom(s, 1, profile, platforms, rnd)

----------------------------------------------------------------------------
(* updateSpawners *)

\* state.enemies.find(e => e.id === id), as an index; 0 when there is none
EnemyIndex(enemies, id) ==
    IF \A i \in 1..Len(enemies) : enemies[i].id # id THEN 0
    ELSE CHOOSE i \in 1..Len(enemies) :
             /\ enemies[i].id = id
             /\ \A j \in 1..(i - 1) : enemies[j].id # id

\* variant: the bounds test with a test against the zone's top
InBoundsWithTop(e, zone) ==
    /\ e.position.x + e.width \div 2 >= zone.x
    /\ e.position.x + e.width \div 2 <= zone.x + zone.width
    /\ e.position.y + e.height \div 2 >= zone.y
    /\ e.position.y + e.height \div 2 <= zone.y + zone.height

\* the bounds test of the cleanup pass: no test against the zone's top
InBounds(e, zone) ==
    /\ e.position.x + e.width \div 2 >= zone.x
    /\ e.position.x + e.width \div 2 <= zone.x + zone.width
    /\ e.position.y + e.height \div 2 <= zone.y + zone.height

\* the tracked id belongs to a live enemy
TracksLive(enemies, id) ==
    EnemyIndex(enemies, id) # 0 /\ ~enemies[EnemyIndex(enemies, id)].isDead

\* the enemy a tracked id refers to is marked dead with no health
KillTracked(s, id) ==
    [s EXCEPT !.enemies[EnemyIndex(s.enemies, id)] =
                  [@ EXCEPT !.isDead = TRUE, !.health = 0]]

\* activeEnemyIds.splice(n, 1) on spawner k
Untrack(s, k, n) ==
    [s EXCEPT !.spawners[k].activeEnemyIds =
                  SubSeq(@, 1, n - 1) \o SubSeq(@, n + 1, Len(@))]

\* 1. cleanup and boundary check of one spawner: the loop over the tracked
\* ids, from the last to the first
RECURSIVE CleanupFrom(_, _, _)
CleanupFrom(s, k, n) ==
    IF n < 1 THEN s
    ELSE IF ~TracksLive(s.enemies, s.spawners[k].activeEnemyIds[n])
    THEN CleanupFrom(Untrack(s, k, n), k, n - 1)
    ELSE IF ~InBounds(s.enemies[EnemyIndex(s.enemies,
                                           s.spawners[k].activeEnemyIds[n])],
                      s.spawners[k].zone)
    THEN CleanupFrom(Untrack(KillTracked(s, s.spawners[k].activeEnemyIds[n]), k, n),
                     k, n - 1)
    ELSE CleanupFrom(s, k, n - 1)

CleanupSpawner(s, k) == CleanupFrom(s, k, Len(s.spawners[k].activeEnemyIds))

\* the enemy literal of the spawn, before the template's overrides
SpawnDefaults(spawner, id, draw) ==
    [id |-> id, type |-> draw.type,
     position |-> [x |-> spawner.zone.x
                         + Mul(spawner.zone.width - PX(40), draw.percent, 100),
                   y |-> spawner.zone.y + PX(50)],
     velocity |-> [x |-> 0, y |-> 0],
     width  |-> IF draw.type = "TURRET" THEN PX(50) ELSE PX(40),
     height |-> IF draw.type = "FLYER" THEN PX(40)
                ELSE IF draw.type = "TURRET" THEN PX(50) ELSE PX(60),
     health    |-> IF draw.type = "FLYER" THEN 40
                   ELSE IF draw.type = "TURRET" THEN 80 ELSE 60,
     maxHealth |-> IF draw.type = "FLYER" THEN 40
                   ELSE IF draw.type = "TURRET" THEN 80 ELSE 60,
     isDead |-> FALSE, hitTimer |-> 0, state |-> "CHASE",
     facingRight |-> draw.facingRight,
     patrolOriginX |-> spawner.zone.x
                       + Mul(spawner.zone.width - PX(40), draw.percent, 100),
     patrolRange |-> 0, detectionRange |-> PX(600),
     attackRange |-> IF draw.type = "FLYER" THEN PX(400)
                     ELSE IF draw.type = "TURRET" THEN PX(500) ELSE PX(60),
     attackCooldownTimer |-> 0, attackDurationTimer |-> 0, chargeTimer |-> 0,
     laserData |-> NoLaser]

\* `spawn_${spawner.id}_${Date.now()}_${Math.random()}`: a fresh id
SpawnId(s, k) ==
    "spawn_" \o s.spawners[k].id \o "_" \o ToString(Len(s.enemies) + 1)

\* the spawn: push the enemy and its id, restart the timer
Spawn(s, k, draw) ==
    [s EXCEPT
        !.enemies = Append(@, MergeProfile(SpawnDefaults(s.spawners[k], SpawnId(s, k),
                                                         draw),
                                           s.spawners[k].enemyTemplate)),
        !.spawners[k].activeEnemyIds = Append(@, SpawnId(s, k)),
        !.spawners[k].spawnTimer = s.spawners[k].spawnInterval]

\* variant: the spawn logic without the population cap
SpawnLogicUncapped(s, k, draw) ==
    IF s.spawners[k].spawnTimer - 1 <= 0
    THEN Spawn(s, k, draw)
    ELSE [s EXCEPT !.spawners[k].spawnTimer = @ - 1]

\* variant: the spawn leaves the timer where the countdown put it
SpawnLogicKeepingTimer(s, k, draw) ==
    IF Len(s.spawners[k].activeEnemyIds) < s.spawners[k].maxEnemies
    THEN IF s.spawners[k].spawnTimer - 1 <= 0
         THEN [Spawn(s, k, draw) EXCEPT
                  !.spawners[k].spawnTimer = s.spawners[k].spawnTimer - 1]
         ELSE [s EXCEPT !.spawners[k].spawnTimer = @ - 1]
    ELSE s

\* 2. spawn logic of one spawner, after its cleanup
SpawnLogic(s, k, draw) ==
    IF Len(s.spawners[k].activeEnemyIds) < s.spawners[k].maxEnemies
    THEN IF s.spawners[k].spawnTimer - 1 <= 0
         THEN Spawn(s, k, draw)
         ELSE [s EXCEPT !.spawners[k].spawnTimer = @ - 1]
    ELSE s

RECURSIVE SpawnersFrom(_, _, _)
SpawnersFrom(s, k, draws) ==
    IF k > Len(s.spawners) THEN s
    ELSE SpawnersFrom(SpawnLogic(CleanupSpawner(s, k), k, draws[k]), k + 1, draws)

updateSpawners(s, draws) == SpawnersFrom(s, 1, draws)

----------------------------------------------------------------------------
(* resolveEntityCollisions *)

\* twice the centre distance and twice the minimal distance, per axis
Overlap2X(a, w1, b, w2) == (w1 + w2) - Abs((2 * a.position.x + w1) - (2 * b.position.x + w2))

Overlap2Y(a, h1, b, h2) == (h1 + h2) - Abs((2 * a.position.y + h1) - (2 * b.position.y + h2))

Overlapping(a, w1, h1, b, w2, h2) ==
    Overlap2X(a, w1, b, w2) > 0 /\ Overlap2Y(a, h1, b, h2) > 0

\* solveOverlap with weight 0.5: both bodies after the push
solveOverlap(a, w1, h1, b, w2, h2) ==
    LET ox == Overlap2X(a, w1, b, w2)
        oy == Overlap2Y(a, h1, b, h2)
        dx == (2 * a.position.x + w1) - (2 * b.position.x + w2)
        dy == (2 * a.position.y + h1) - (2 * b.position.y + h2)
    IN  IF ~(ox > 0 /\ oy > 0) THEN [first |-> a, second |-> b]
        ELSE IF ox < oy
        THEN LET dir == IF dx > 0 THEN 1 ELSE -1
                 half == Mul(ox, 1, 4)
             IN  [first  |-> [a EXCEPT !.position.x = @ + half * dir,
                                       !.velocity.x = Mul(@, 1, 2)],
                  second |-> [b EXCEPT !.position.x = @ - half * dir,
                                       !.velocity.x = Mul(@, 1, 2)]]
        ELSE LET dir == IF dy > 0 THEN 1 ELSE -1
                 half == Mul(oy, 1, 4)
             IN  [first  |-> [a EXCEPT !.position.y = @ + half * dir,
                                       !.velocity.y = 0],
                  second |-> [b EXCEPT !.position.y = @ - half * dir,
                                       !.velocity.y = 0]]

\* write a solved enemy pair back
WithEnemyPair(enemies, i, j, r) == [enemies EXCEPT ![i] = r.first, ![j] = r.second]

\* 1. enemy vs enemy: the inner loop over j for a fixed i
RECURSIVE EnemyPairsInner(_, _, _)
EnemyPairsInner(enemies, i, j) ==
    IF j > Len(enemies) THEN enemies
    ELSE IF enemies[i].isDead \/ enemies[j].isDead
    THEN EnemyPairsInner(enemies, i, j + 1)
    ELSE EnemyPairsInner(
             WithEnemyPair(enemies, i, j,
                 solveOverlap(enemies[i], enemies[i].width, enemies[i].height,
                              enemies[j], enemies[j].width, enemies[j].height)),
             i, j + 1)

RECURSIVE EnemyPairs(_, _)
EnemyPairs(enemies, i) ==
    IF i > Len(enemies) THEN enemies
    ELSE EnemyPairs(EnemyPairsInner(enemies, i, i + 1), i + 1)

\* write a solved player/enemy pair back
WithPlayerPair(s, i, r) == [s EXCEPT !.player = r.first, !.enemies[i] = r.second]

\* 2. player vs enemies
RECURSIVE PlayerPairs(_, _)
PlayerPairs(s, i) ==
    IF i > Len(s.enemies) THEN s
    ELSE IF s.enemies[i].isDead THEN PlayerPairs(s, i + 1)
    ELSE PlayerPairs(
             WithPlayerPair(s, i,
                 solveOverlap(s.player, PLAYER_W, PLAYER_H, s.enemies[i],
                              s.enemies[i].width, s.enemies[i].height)),
             i + 1)

resolveEntityCollisions(s) ==
    PlayerPairs([s EXCEPT !.enemies = EnemyPairs(s.enemies, 1)], 1)

----------------------------------------------------------------------------
(* updatePhysics *)

DeathCondition(s, killPlaneY) ==
    s.player.health <= 0 \/ s.player.position.y > killPlaneY

\* variant: the death branch without its isDead guard
EntersDeathEveryTick(s, killPlaneY) ==
    s.hitStopTimer = 0 /\ DeathCondition(s, killPlaneY)

\* the tick enters death: isDead is set and the respawn callback is scheduled
EntersDeath(s, killPlaneY) ==
    s.hitStopTimer = 0 /\ DeathCondition(s, killPlaneY) /\ ~s.player.isDead

\* the tick runs past the hit-stop and death checks
RunsFullTick(s, killPlaneY) ==
    s.hitStopTimer = 0 /\ ~DeathCondition(s, killPlaneY)

\* phases 1 to 3 of the tick: timers, jump buffer, combat, dash start
BeforeMove(s, profile, input, crit) ==
    LET s1 == [s EXCEPT !.player = JumpBuffer(Timers(@, profile), profile, input)]
    IN  [Combat(s1, profile, input, crit) EXCEPT
            !.player = DashStart(@, profile, input)]

\* the tick moves the player as a dash and returns early
DashMoves(b) == b.player.isDashing /\ b.player.dashTimer > 0

\* the dash branch: movePlayer, then return
DashMove(b, lvl) == [b EXCEPT !.player = movePlayer(@, lvl.platforms)]

\* phases 4 and 5: the player as the jump branches find it
BeforeJumping(p, profile, input, platforms) ==
    WallAndGravity(
        Horizontal(IF p.isDashing THEN DashEnd(p) ELSE p, profile, input),
        profile, input, platforms)

\* phases 4 to 6 and movePlayer
NormalMove(b, profile, input, lvl) ==
    [b EXCEPT !.player =
        movePlayer(
            Jumping(BeforeJumping(@, profile, input, lvl.platforms), profile, input),
            lvl.platforms)]

\* the tick's call of movePlayer, on either branch
MovePhase(b, profile, input, lvl) ==
    IF DashMoves(b) THEN DashMove(b, lvl) ELSE NormalMove(b, profile, input, lvl)

\* the state right after the tick's call of movePlayer
AfterMovePlayer(s, profile, input, lvl, crit) ==
    MovePhase(BeforeMove(s, profile, input, crit), profile, input, lvl)

\* 9. the tick's last step: pick the animation
SetAnim(s) == [s EXCEPT !.player.activeAnim = NextAnim(s.player)]

\* landing and spawners after movePlayer: the state updateEnemies starts from
BeforeEnemies(m, profile, rnd) ==
    updateSpawners([m EXCEPT !.player = Landing(@, profile)], rnd.spawn)

\* landing, spawners, enemies, entity collisions and animation after movePlayer
EndOfTick(m, profile, lvl, rnd) ==
    SetAnim(resolveEntityCollisions(
                updateEnemies(BeforeEnemies(m, profile, rnd),
                              profile, lvl.platforms, rnd)))

MoveAndFinish(b, profile, input, lvl, rnd) ==
    IF DashMoves(b) THEN DashMove(b, lvl)
    ELSE EndOfTick(NormalMove(b, profile, input, lvl), profile, lvl, rnd)

\* the tick reaches the jump branches and takes the double jump
DoubleJumpFires(s, profile, input, lvl, crit) ==
    /\ RunsFullTick(s, lvl.killPlaneY)
    /\ ~DashMoves(BeforeMove(s, profile, input, crit))
    /\ JumpBranch(BeforeJumping(BeforeMove(s, profile, input, crit).player,
                                profile, input, lvl.platforms)) = "double"

\* everything after the death check; rnd holds the tick's Math.random() draws
TickBody(s, profile, input, lvl, rnd) ==
    MoveAndFinish(BeforeMove(s, profile, input, rnd.crit),
                  profile, input, lvl, rnd)

\* variant: the freeze still lets the frame timers and the input edge run
updatePhysicsThawed(s, profile, input, lvl, rnd) ==
    IF s.hitStopTimer > 0
    THEN [s EXCEPT !.hitStopTimer = @ - 1,
                   !.player = JumpBuffer(Timers(s.player, profile), profile, input)]
    ELSE IF DeathCondition(s, lvl.killPlaneY)
    THEN IF EntersDeath(s, lvl.killPlaneY) THEN [s EXCEPT !.player.isDead = TRUE] ELSE s
    ELSE TickBody(s, profile, input, lvl, rnd)

\* variant: a dead player's frame timers and jump edge keep running
updatePhysicsSamplingWhileDead(s, profile, input, lvl, rnd) ==
    IF s.hitStopTimer > 0 THEN [s EXCEPT !.hitStopTimer = @ - 1]
    ELSE IF DeathCondition(s, lvl.killPlaneY)
    THEN IF EntersDeath(s, lvl.killPlaneY) THEN [s EXCEPT !.player.isDead = TRUE]
         ELSE [s EXCEPT !.player = JumpBuffer(Timers(@, profile), profile, input)]
    ELSE TickBody(s, profile, input, lvl, rnd)

updatePhysics(s, profile, input, lvl, rnd) ==
    IF s.hitStopTimer > 0 THEN [s EXCEPT !.hitStopTimer = @ - 1]
    ELSE IF DeathCondition(s, lvl.killPlaneY)
    THEN IF EntersDeath(s, lvl.killPlaneY) THEN [s EXCEPT !.player.isDead = TRUE] ELSE s
    ELSE TickBody(s, profile, input, lvl, rnd)

\* variant: the callback revives the player where they died
RespawnInPlace(s) ==
    [s EXCEPT !.player.isDead = FALSE,
              !.player.health = s.player.maxHealth,
              !.player.velocity = [x |-> 0, y |-> 0],
              !.player.invincibilityTimer = RESPAWN_I_FRAMES]

\* the setTimeout callback scheduled on death
RespawnCallback(s) ==
    [s EXCEPT !.player.isDead = FALSE,
              !.player.health = s.player.maxHealth,
              !.player.position = s.player.respawnPosition,
              !.player.velocity = [x |-> 0, y |-> 0],
              !.player.invincibilityTimer = RESPAWN_I_FRAMES]

----------------------------------------------------------------------------
(* Construction: profile, input system, game state from the level prop *)

DEFAULT_PHYSICS_PROFILE ==
    [gravity |-> 9, terminalVelocity |-> PX(18),
     runSpeed |-> PX(9), groundAccel |-> 12, groundDecel |-> 15,
     airAccel |-> 8, airDecel |-> 2,
     jumpForce |-> PX(18), doubleJumpForce |-> PX(16),
     jumpCutMultiplier |-> 40, jumpBufferFrames |-> 5, coyoteFrames |-> 6,
     wallSlideSpeed |-> PX(4), wallJumpForce |-> [x |-> PX(10), y |-> PX(16)],
     dashSpeed |-> PX(24), dashDurationFrames |-> 8, dashCooldownFrames |-> 30,
     maxDashes |-> 3,
     attackDurationFrames |-> 12, attackCooldownFrames |-> 14,
     attackLungeSpeed |-> PX(12), airLaunchForce |-> PX(14),
     enemyLaunchForce |-> PX(18),
     comboWindowFrames |-> 45, comboKeepAliveFrames |-> 60]

\* InputSystem constructor: every command released
InitialInput == [c \in Commands |-> FALSE]

\* the player of the initial gameState ref
InitialPlayer(playerStart) ==
    [position |-> playerStart, velocity |-> [x |-> 0, y |-> 0],
     isGrounded |-> FALSE, isDashing |-> FALSE, isWallSliding |-> FALSE,
     isJumping |-> FALSE, canDoubleJump |-> TRUE, isAttacking |-> FALSE,
     facingRight |-> TRUE, activeAnim |-> "IDLE",
     dashTimer |-> 0, dashCooldownTimer |-> 0, dashCount |-> 0, dashChainTimer |-> 0,
     attackTimer |-> 0, attackCooldownTimer |-> 0,
     comboStep |-> 0, comboCount |-> 0, comboWindowTimer |-> 0, comboDropTimer |-> 0,
     coyoteTimer |-> 0, jumpBufferTimer |-> 0, wallDir |-> 0,
     lastJumpInput |-> FALSE, lastDashInput |-> FALSE, lastAttackInput |-> FALSE,
     health |-> PLAYER_MAX_HEALTH, maxHealth |-> PLAYER_MAX_HEALTH,
     isDead |-> FALSE, invincibilityTimer |-> 0,
     respawnPosition |-> playerStart]

InitialGameState(lvl) ==
    [player |-> InitialPlayer(lvl.playerStart),
     enemies |-> lvl.enemies,
     spawners |-> lvl.spawners,
     hitStopTimer |-> 0,
     timeScale |-> 5,
     slowMoTimer |-> 0]

\* a WALKER entry of LevelData.enemies (40 x 60, at rest)
Walker(id, x, y, health, state, facingRight, patrolRange, detectionRange, attackRange) ==
    [id |-> id, type |-> "WALKER",
     position |-> [x |-> x, y |-> y], velocity |-> [x |-> 0, y |-> 0],
     width |-> PX(40), height |-> PX(60),
     health |-> health, maxHealth |-> health, isDead |-> FALSE, hitTimer |-> 0,
     state |-> state, facingRight |-> facingRight,
     patrolOriginX |-> x, patrolRange |-> patrolRange,
     detectionRange |-> detectionRange, attackRange |-> attackRange,
     attackCooldownTimer |-> 0, attackDurationTimer |-> 0, chargeTimer |-> 0,
     laserData |-> NoLaser]

Rect(x, y, width, height) == [x |-> x, y |-> y, width |-> width, height |-> height]

NoEvent == [type |-> "none", key |-> "none", patch |-> << >>]

InitWith(lvl) ==
    /\ level = lvl
    /\ gameState = InitialGameState(lvl)
    /\ physicsProfile = DEFAULT_PHYSICS_PROFILE
    /\ inputState = InitialInput
    /\ accumulator = 0
    /\ isPaused = FALSE
    /\ respawnTimers = 0
    /\ pc = "idle"
    /\ frame = [ticksExecuted |-> 0, accBefore |-> 0, added |-> 0,
                delta |-> 0, scale |-> 5, paused |-> FALSE]
    /\ event = NoEvent
    /\ ticks = 0
    /\ events = 0
    /\ airJumps = 0
    /\ runTicks = 0

----------------------------------------------------------------------------
(* The handlers *)

\* Math.random() < 0.25 is evaluated only inside the press-edge block
CritRolls(s, input) ==
    IF s.hitStopTimer = 0 /\ input.ATTACK /\ ~s.player.lastAttackInput
    THEN [1..Len(s.enemies) -> BOOLEAN]
    ELSE {[i \in 1..Len(s.enemies) |-> FALSE]}

\* the Walker draws its next cooldown only when its swing has run out
DrawsCooldown(e) ==
    /\ e.type \notin {"FLYER", "TURRET"}
    /\ e.state = "ATTACK" /\ e.chargeTimer = 0 /\ e.attackDurationTimer <= 1

\* one draw per enemy slot; an enemy spawned on this tick draws nothing
CooldownRolls(s) ==
    {f \in [1..(Len(s.enemies) + Len(s.spawners)) -> WalkerCooldowns] :
        \A i \in DOMAIN f :
            (i > Len(s.enemies) \/ ~DrawsCooldown(s.enemies[i])) => f[i] = 60}

\* a spawner can only spawn on a tick it starts with spawnTimer <= 1
MaySpawn(spawner) == spawner.spawnTimer <= 1

\* the spawn's Math.random() draws: the type (rand <= 0.4, <= 0.7, above), the
\* place in the zone in percent of its width, the facing
SpawnDraws ==
    [type : {"WALKER", "TURRET", "FLYER"}, percent : SpawnPercents,
     facingRight : BOOLEAN]

NoSpawnDraw == [type |-> "WALKER", percent |-> 0, facingRight |-> FALSE]

SpawnRolls(s) ==
    {f \in [1..Len(s.spawners) -> SpawnDraws] :
        \A k \in 1..Len(s.spawners) :
            ~MaySpawn(s.spawners[k]) => f[k] = NoSpawnDraw}

\* Date.now() moves a hovering Flyer's target; it is read only by a Flyer in CHASE
HoverRolls(s) ==
    IF \/ \E i \in 1..Len(s.enemies) :
              /\ s.enemies[i].type = "FLYER"
              /\ ~s.enemies[i].isDead
              /\ s.enemies[i].state \in {"CHASE", "HIT"}
       \/ \E k \in 1..Len(s.spawners) : MaySpawn(s.spawners[k])
    THEN HoverOffsets
    ELSE {[x |-> 0, y |-> 0]}

\* variant: the real delta is accumulated without the 200 ms clamp
LoopUnclamped(deltaTime) ==
    /\ pc = "idle"
    /\ IF isPaused
       THEN /\ UNCHANGED <<gameState, accumulator, pc>>
            /\ frame' = [ticksExecuted |-> 0, accBefore |-> accumulator, added |-> 0,
                         delta |-> deltaTime, scale |-> gameState.timeScale,
                         paused |-> TRUE]
       ELSE LET slow == gameState.slowMoTimer > 0
                timer == IF slow THEN gameState.slowMoTimer - deltaTime
                                 ELSE gameState.slowMoTimer
                scale == IF slow /\ timer <= 0 THEN 5 ELSE gameState.timeScale
                added == deltaTime * scale
            IN  /\ gameState' = [gameState EXCEPT !.slowMoTimer = timer,
                                                  !.timeScale = scale]
                /\ accumulator' = accumulator + added
                /\ frame' = [ticksExecuted |-> 0, accBefore |-> accumulator,
                             added |-> added, delta |-> deltaTime, scale |-> scale,
                             paused |-> FALSE]
                /\ pc' = IF accumulator + added >= FIXED_TIMESTEP
                         THEN "loop" ELSE "idle"
    /\ UNCHANGED <<level, physicsProfile, inputState, isPaused, respawnTimers,
                   event, ticks, events,
                   airJumps, runTicks>>

\* variant: the slow-motion timer runs in scaled game time
LoopSlowMoInGameTime(deltaTime) ==
    /\ pc = "idle"
    /\ IF isPaused
       THEN /\ UNCHANGED <<gameState, accumulator, pc>>
            /\ frame' = [ticksExecuted |-> 0, accBefore |-> accumulator, added |-> 0,
                         delta |-> deltaTime, scale |-> gameState.timeScale,
                         paused |-> TRUE]
       ELSE LET slow == gameState.slowMoTimer > 0
                timer == IF slow THEN gameState.slowMoTimer
                                      - Mul(deltaTime, gameState.timeScale, 5)
                                 ELSE gameState.slowMoTimer
                scale == IF slow /\ timer <= 0 THEN 5 ELSE gameState.timeScale
                added == Min(deltaTime, 3 * MAX_DELTA_MS) * scale
            IN  /\ gameState' = [gameState EXCEPT !.slowMoTimer = timer,
                                                  !.timeScale = scale]
                /\ accumulator' = accumulator + added
                /\ frame' = [ticksExecuted |-> 0, accBefore |-> accumulator,
                             added |-> added, delta |-> deltaTime, scale |-> scale,
                             paused |-> FALSE]
                /\ pc' = IF accumulator + added >= FIXED_TIMESTEP
                         THEN "loop" ELSE "idle"
    /\ UNCHANGED <<level, physicsProfile, inputState, isPaused, respawnTimers,
                   event, ticks, events,
                   airJumps, runTicks>>

\* loop(timestamp) up to the while: slow-motion timer, clamp, accumulate
Loop(deltaTime) ==
    /\ pc = "idle"
    /\ IF isPaused
       THEN /\ UNCHANGED <<gameState, accumulator, pc>>
            /\ frame' = [ticksExecuted |-> 0, accBefore |-> accumulator, added |-> 0,
                         delta |-> deltaTime, scale |-> gameState.timeScale,
                         paused |-> TRUE]
       ELSE LET slow == gameState.slowMoTimer > 0
                timer == IF slow THEN gameState.slowMoTimer - deltaTime
                                 ELSE gameState.slowMoTimer
                scale == IF slow /\ timer <= 0 THEN 5 ELSE gameState.timeScale
                added == Min(deltaTime, 3 * MAX_DELTA_MS) * scale
            IN  /\ gameState' = [gameState EXCEPT !.slowMoTimer = timer,
                                                  !.timeScale = scale]
                /\ accumulator' = accumulator + added
                /\ frame' = [ticksExecuted |-> 0, accBefore |-> accumulator,
                             added |-> added, delta |-> deltaTime, scale |-> scale,
                             paused |-> FALSE]
                /\ pc' = IF accumulator + added >= FIXED_TIMESTEP
                         THEN "loop" ELSE "idle"
    /\ UNCHANGED <<level, physicsProfile, inputState, isPaused, respawnTimers,
                   event, ticks, events,
                   airJumps, runTicks>>

\* the ground run counted by runTicks stops at this many ticks
RunCap == 10

\* a tick from s to t of a player who stays grounded, neither attacks nor
\* dashes, holds RIGHT only and is moved by nothing but its own velocity
RunsOn(s, t, input, lvl) ==
    /\ RunsFullTick(s, lvl.killPlaneY)
    /\ s.player.isGrounded /\ t.player.isGrounded
    /\ ~s.player.isAttacking /\ ~t.player.isAttacking
    /\ ~s.player.isDashing /\ ~t.player.isDashing
    /\ input.RIGHT /\ ~input.LEFT
    /\ t.player.position.x = s.player.position.x + t.player.velocity.x

\* one iteration of the while: updatePhysics(physicsProfile), then subtract
Tick ==
    /\ pc = "loop"
    /\ accumulator >= FIXED_TIMESTEP
    /\ \E crit \in CritRolls(gameState, inputState) :
       \E cooldown \in CooldownRolls(gameState) :
       \E spawn \in SpawnRolls(gameState) :
       \E hover \in HoverRolls(gameState) :
           /\ gameState' = updatePhysics(gameState, physicsProfile, inputState, level,
                                         [crit |-> crit, cooldown |-> cooldown,
                                          spawn |-> spawn, hover |-> hover])
           /\ airJumps' = IF gameState'.player.isGrounded THEN 0
                          ELSE IF DoubleJumpFires(gameState, physicsProfile,
                                                  inputState, level, crit)
                          THEN Min(airJumps + 1, 2)
                          ELSE airJumps
           /\ runTicks' = IF RunsOn(gameState, gameState', inputState, level)
                          THEN IF runTicks > 0 THEN Min(runTicks + 1, RunCap)
                               ELSE IF gameState.player.velocity.x = 0 THEN 1 ELSE 0
                          ELSE 0
    /\ respawnTimers' = IF EntersDeath(gameState, level.killPlaneY)
                        THEN respawnTimers + 1 ELSE respawnTimers
    /\ accumulator' = accumulator - FIXED_TIMESTEP
    /\ frame' = [frame EXCEPT !.ticksExecuted = @ + 1]
    /\ pc' = IF accumulator - FIXED_TIMESTEP >= FIXED_TIMESTEP THEN "loop" ELSE "idle"
    /\ ticks' = ticks + 1
    /\ UNCHANGED <<level, physicsProfile, inputState, isPaused, event, events>>

\* the respawn callback fires (1000 ms of real time after the death tick)
Respawn ==
    /\ pc = "idle"
    /\ respawnTimers > 0
    /\ gameState' = RespawnCallback(gameState)
    /\ respawnTimers' = respawnTimers - 1
    /\ UNCHANGED <<level, physicsProfile, inputState, accumulator, isPaused, pc,
                   frame, event, ticks, events,
                   airJumps, runTicks>>

\* InputSystem.handleKeyDown (a repeated keydown of a held key changes nothing)
KeyDown(command) ==
    /\ pc = "idle"
    /\ ~inputState[command]
    /\ inputState' = [inputState EXCEPT ![command] = TRUE]
    /\ event' = [type |-> "keydown", key |-> command, patch |-> << >>]
    /\ events' = events + 1
    /\ UNCHANGED <<gameState, level, physicsProfile, accumulator, isPaused,
                   respawnTimers, pc, frame, ticks,
                   airJumps, runTicks>>

\* InputSystem.handleKeyUp
KeyUp(command) ==
    /\ pc = "idle"
    /\ inputState[command]
    /\ inputState' = [inputState EXCEPT ![command] = FALSE]
    /\ event' = [type |-> "keyup", key |-> command, patch |-> << >>]
    /\ events' = events + 1
    /\ UNCHANGED <<gameState, level, physicsProfile, accumulator, isPaused,
                   respawnTimers, pc, frame, ticks,
                   airJumps, runTicks>>

\* variant: the restarted loop effect also clears the in-flight player timers
MergeResettingTimers(newValues) ==
    /\ pc = "idle"
    /\ physicsProfile' = MergeProfile(physicsProfile, newValues)
    /\ gameState' = [gameState EXCEPT !.player.attackCooldownTimer = 0,
                                      !.player.comboWindowTimer = 0,
                                      !.player.dashCooldownTimer = 0,
                                      !.player.dashChainTimer = 0]
    /\ event' = [type |-> "merge", key |-> "none", patch |-> newValues]
    /\ events' = events + 1
    /\ UNCHANGED <<level, inputState, accumulator, isPaused,
                   respawnTimers, pc, frame, ticks,
                   airJumps, runTicks>>

\* App.handleUpdateProfile(newValues); the loop effect restarts with the new profile
Merge(newValues) ==
    /\ pc = "idle"
    /\ physicsProfile' = MergeProfile(physicsProfile, newValues)
    /\ event' = [type |-> "merge", key |-> "none", patch |-> newValues]
    /\ events' = events + 1
    /\ UNCHANGED <<gameState, level, inputState, accumulator, isPaused,
                   respawnTimers, pc, frame, ticks,
                   airJumps, runTicks>>

\* the pause button: setIsPaused(!isPaused), synced into isPausedRef
TogglePause ==
    /\ pc = "idle"
    /\ isPaused' = ~isPaused
    /\ event' = [type |-> "pause", key |-> "none", patch |-> << >>]
    /\ events' = events + 1
    /\ UNCHANGED <<gameState, level, physicsProfile, inputState, accumulator,
                   respawnTimers, pc, frame, ticks,
                   airJumps, runTicks>>

----------------------------------------------------------------------------
(* Specification Spec: close combat against a stationary Walker *)

MaxTicks == 8
MaxEvents == 4

\* one floor, the player standing on it, a passive Walker within sword reach
TrainingRoom ==
    [platforms   |-> <<Rect(0, PX(600), PX(600), PX(200))>>,
     killPlaneY  |-> PX(1000),
     playerStart |-> [x |-> PX(100), y |-> PX(536)],
     enemies     |-> <<Walker("dummy1", PX(150), PX(540), 100, "IDLE", FALSE, 0, 0, 0)>>,
     spawners    |-> << >>]

\* one frame of a 60 Hz display, in thirds of a millisecond
FrameDelta == FIXED_TIMESTEP \div 5

CombatKeys == {"ATTACK", "JUMP"}

\* profile panel edits: nothing, and a quicker sword
CombatPatches ==
    {<< >>, [attackCooldownFrames |-> 3, comboWindowFrames |-> 1]}

Init == InitWith(TrainingRoom)

Next ==
    \/ ticks < MaxTicks /\ Loop(FrameDelta)
    \/ Tick
    \/ \E c \in CombatKeys : events < MaxEvents /\ KeyDown(c)
    \/ \E c \in CombatKeys : events < MaxEvents /\ KeyUp(c)
    \/ \E patch \in CombatPatches : events < MaxEvents /\ Merge(patch)

Spec == Init /\ [][Next]_vars

----------------------------------------------------------------------------
(* Properties checked under Spec *)

\* a step that is one call of updatePhysics
IsTick == ticks' = ticks + 1

\* the tick samples a fresh ATTACK press (it runs past hit-stop and death check)
SamplesAttackPress ==
    /\ IsTick
    /\ RunsFullTick(gameState, level.killPlaneY)
    /\ inputState.ATTACK
    /\ ~gameState.player.lastAttackInput

\* ... and the press starts no attack: not dashing, cooldown still running
PressStartsNoAttack ==
    /\ SamplesAttackPress
    /\ ~gameState.player.isDashing
    /\ Timers(gameState.player, physicsProfile).attackCooldownTimer > 0

\* C1: an ATTACK press edge that starts no attack (player not dashing,
\* attackCooldownTimer > 0) reduces no enemy's health, does not increment
\* comboCount and does not set hitStopTimer, even while isAttacking is still
\* true from the previous attack.
C1_HitOncePerAttack ==
    [][PressStartsNoAttack =>
        /\ \A i \in 1..Len(gameState.enemies) :
               gameState'.enemies[i].health >= gameState.enemies[i].health
        /\ gameState'.player.comboCount <= gameState.player.comboCount
        /\ gameState'.hitStopTimer = 0]_vars

\* C8: a tick that starts with hitStopTimer > 0 decreases hitStopTimer by
\* exactly 1 and leaves every other field of the game state unchanged (player
\* with its timers and last-input flags, enemies, timeScale, slowMoTimer);
\* the input is not sampled.
C8_HitStopFreezes ==
    [][(IsTick /\ gameState.hitStopTimer > 0) =>
        /\ gameState' = [gameState EXCEPT !.hitStopTimer = @ - 1]
        /\ inputState' = inputState]_vars

\* two frozen ticks have run while the ATTACK key was released behind them
C8_Witness ==
    /\ gameState.hitStopTimer = 1
    /\ gameState.player.lastAttackInput
    /\ ~inputState.ATTACK
    /\ gameState.player.attackTimer > 0

\* C10: a profile merge overwrites exactly the keys of the patch and changes
\* nothing in the game state or the accumulator; merging the empty patch
\* leaves the whole profile unchanged.
C10_MergeTouchesOnlyProfile ==
    [][(events' = events + 1 /\ event'.type = "merge") =>
        /\ gameState' = gameState
        /\ accumulator' = accumulator
        /\ respawnTimers' = respawnTimers
        /\ DOMAIN physicsProfile' = DOMAIN physicsProfile \cup DOMAIN event'.patch
        /\ \A k \in DOMAIN event'.patch : physicsProfile'[k] = event'.patch[k]
        /\ \A k \in DOMAIN physicsProfile \ DOMAIN event'.patch :
               physicsProfile'[k] = physicsProfile[k]
        /\ (event'.patch = << >> => physicsProfile' = physicsProfile)]_vars

\* a non-empty patch has been merged while the attack cooldown and the combo
\* window were running
C10_Witness ==
    /\ event.type = "merge"
    /\ event.patch # << >>
    /\ physicsProfile.attackCooldownFrames = 3
    /\ gameState.player.attackCooldownTimer > 0
    /\ gameState.player.comboWindowTimer > 0

----------------------------------------------------------------------------
(* Specification SpecCombo: sword combos with nothing in reach *)

ComboTicks == 6
ComboEvents == 7

\* as TrainingRoom, the passive Walker standing out of reach
EmptyRoom ==
    [platforms   |-> <<Rect(0, PX(600), PX(600), PX(200))>>,
     killPlaneY  |-> PX(1000),
     playerStart |-> [x |-> PX(100), y |-> PX(536)],
     enemies     |-> <<Walker("dummy1", PX(400), PX(540), 100, "IDLE", FALSE, 0, 0, 0)>>,
     spawners    |-> << >>]

\* profile panel edit: the quickest sword, a two-frame chain window
ComboPatches == {[attackCooldownFrames |-> 1, comboWindowFrames |-> 2]}

InitCombo == InitWith(EmptyRoom)

NextCombo ==
    \/ ticks < ComboTicks /\ Loop(FrameDelta)
    \/ Tick
    \/ \E c \in CombatKeys : events < ComboEvents /\ KeyDown(c)
    \/ \E c \in CombatKeys : events < ComboEvents /\ KeyUp(c)
    \/ \E patch \in ComboPatches : events < ComboEvents /\ Merge(patch)

SpecCombo == InitCombo /\ [][NextCombo]_vars

----------------------------------------------------------------------------
(* Properties checked under SpecCombo *)

\* the chain window is closed when the press is resolved (after the decrement)
ComboWindowClosed ==
    Timers(gameState.player, physicsProfile).comboWindowTimer = 0

\* the press resolves to the standard attack branch
PressStartsStandardAttack ==
    /\ SamplesAttackPress
    /\ ~gameState.player.isDashing
    /\ Timers(gameState.player, physicsProfile).attackCooldownTimer = 0
    /\ ~inputState.JUMP

\* C2 (as stated): every fresh ATTACK press sampled while comboWindowTimer = 0
\* leaves comboStep = 0 at the end of the tick's combat phase, whichever
\* attack type the press resolves to.
C2_PressWithClosedWindowResets ==
    [][(SamplesAttackPress /\ ComboWindowClosed) =>
        gameState'.player.comboStep = 0]_vars

\* C2 (amended): a fresh ATTACK press sampled while comboWindowTimer = 0 leaves
\* comboStep = 0 when it starts a standard attack, and leaves comboStep as it
\* was when it resolves to the air launcher, the dash attack or no attack.
C2_StandardPressResets ==
    [][(SamplesAttackPress /\ ComboWindowClosed) =>
        IF PressStartsStandardAttack
        THEN gameState'.player.comboStep = 0
        ELSE gameState'.player.comboStep = gameState.player.comboStep]_vars

\* an air launcher has just started with the window closed and comboStep 1
C2_Witness ==
    /\ gameState.player.activeAnim = "ATTACK_AIR_A"
    /\ gameState.player.attackTimer = physicsProfile.attackDurationFrames
    /\ gameState.player.comboWindowTimer = 0
    /\ gameState.player.comboStep = 1

PlayerTimers ==
    {"dashTimer", "dashCooldownTimer", "dashChainTimer", "attackTimer",
     "attackCooldownTimer", "coyoteTimer", "jumpBufferTimer", "invincibilityTimer",
     "comboWindowTimer", "comboDropTimer"}

\* one frame in the unit the timer is kept in
FrameUnit(t) == IF t = "attackCooldownTimer" THEN 2 ELSE 1

\* C3: every player frame-timer is >= 0 at every tick boundary and loses at
\* most one frame per tick (unless the tick clears it to 0), for every profile
\* in force, also when the air launcher's cooldown attackCooldownFrames * 1.5
\* is not an integer.
C3_TimersStayNonNegative ==
    [][IsTick =>
        \A t \in PlayerTimers :
            /\ gameState'.player[t] >= 0
            /\ \/ gameState'.player[t] >= gameState.player[t] - FrameUnit(t)
               \/ gameState'.player[t] = 0]_vars

----------------------------------------------------------------------------
(* Specification SpecDash: the dash charges under profile edits *)

DashTicks == 18
DashEvents == 4

DashKeys == {"DASH"}

\* profile panel edit: a single dash charge
DashPatches == {[maxDashes |-> 1]}

InitDash == InitWith(EmptyRoom)

NextDash ==
    \/ ticks < DashTicks /\ Loop(FrameDelta)
    \/ Tick
    \/ \E c \in DashKeys : events < DashEvents /\ KeyDown(c)
    \/ \E c \in DashKeys : events < DashEvents /\ KeyUp(c)
    \/ \E patch \in DashPatches : events < DashEvents /\ Merge(patch)

SpecDash == InitDash /\ [][NextDash]_vars

\* the tick starts the dash that uses the last charge
StartsLastDash ==
    /\ IsTick
    /\ gameState'.player.dashCount = gameState.player.dashCount + 1
    /\ gameState'.player.dashCount >= physicsProfile.maxDashes

\* C4: at every tick boundary 0 <= dashCount <= maxDashes of the profile in
\* force at that tick, also after a merge changed maxDashes; and the dash that
\* brings dashCount to maxDashes sets the long cooldown (120 >= 15).
C4_DashCountWithinCharges ==
    [][IsTick =>
        /\ gameState'.player.dashCount >= 0
        /\ gameState'.player.dashCount <= physicsProfile.maxDashes
        /\ StartsLastDash =>
              /\ gameState'.player.dashCooldownTimer = DASH_LONG_COOLDOWN
              /\ DASH_LONG_COOLDOWN >= DASH_SHORT_COOLDOWN]_vars

----------------------------------------------------------------------------
(* Specification SpecLoop: the frame loop under uneven frame times *)

LoopTicks == 12
LoopEvents == 2

\* frame deltas in thirds of a millisecond: 6.67 ms, 16.67 ms, 250 ms
LoopDeltas == {20, 50, 750}

LoopKeys == {"DASH", "ATTACK"}

InitLoop == InitWith(TrainingRoom)

NextLoop ==
    \/ \E dt \in LoopDeltas : ticks < LoopTicks /\ Loop(dt)
    \/ Tick
    \/ \E c \in LoopKeys : events < LoopEvents /\ KeyDown(c)
    \/ events < LoopEvents /\ TogglePause

SpecLoop == InitLoop /\ [][NextLoop]_vars

\* the largest remainder plus 200 ms at full speed, in whole ticks
MaxTicksPerFrame == ((FIXED_TIMESTEP - 1) + 3 * MAX_DELTA_MS * 5) \div FIXED_TIMESTEP

\* C9: an unpaused loop call adds exactly min(delta, 200 ms) * timeScale to
\* the accumulator and runs one tick per full tick length: on return
\* 0 <= accumulator < tick length, ticks * tick length + accumulator equals the
\* accumulator before plus the amount added, and the number of ticks of one
\* call is bounded whatever the delta.
C9_AccumulatorAccounting ==
    (pc = "idle" /\ ~frame.paused) =>
        /\ frame.added = Min(frame.delta, 3 * MAX_DELTA_MS) * frame.scale
        /\ 0 <= accumulator
        /\ accumulator < FIXED_TIMESTEP
        /\ frame.ticksExecuted * FIXED_TIMESTEP + accumulator
               = frame.accBefore + frame.added
        /\ frame.ticksExecuted <= MaxTicksPerFrame

\* a 250 ms frame in slow motion has returned: clamped, scaled by 0.2, two
\* ticks run and a remainder kept
C9_Witness ==
    /\ pc = "idle"
    /\ ~frame.paused
    /\ frame.delta > 3 * MAX_DELTA_MS
    /\ frame.scale = 1
    /\ frame.ticksExecuted = 2
    /\ accumulator > 0

----------------------------------------------------------------------------
(* Specification SpecSiege: an aggressive Walker against an idle player *)

SiegeTicks == 1000

\* a wide floor; the Walker of the arena spawner's template, already chasing
Arena ==
    [platforms   |-> <<Rect(0, PX(600), PX(4000), PX(200))>>,
     killPlaneY  |-> PX(1500),
     playerStart |-> [x |-> PX(3800), y |-> PX(536)],
     enemies     |-> <<Walker("spawn_1", PX(3900), PX(540), 60, "CHASE", FALSE,
                              PX(300), PX(800), PX(60))>>,
     spawners    |-> << >>]

InitSiege == InitWith(Arena)

NextSiege ==
    \/ ticks < SiegeTicks /\ Loop(FrameDelta)
    \/ Tick
    \/ Respawn

SpecSiege == InitSiege /\ [][NextSiege]_vars

\* C5: at every tick boundary 0 <= player.health <= player.maxHealth, for
\* every sequence of damagePlayer calls and respawns.
C5_HealthWithinBounds ==
    /\ gameState.player.health >= 0
    /\ gameState.player.health <= gameState.player.maxHealth

\* C6: death is entered at most once per life: exactly one respawn callback is
\* pending while player.isDead is true and none otherwise, and a tick that
\* runs while the player is dead changes neither the game state nor the
\* pending callback.
C6_DeathOncePerLife ==
    /\ [](respawnTimers = IF gameState.player.isDead THEN 1 ELSE 0)
    /\ [][(IsTick /\ gameState.player.isDead)
            => (gameState' = gameState /\ respawnTimers' = respawnTimers)]_vars

\* a frame is about to tick while the player lies dead with the respawn pending
C6_Witness ==
    /\ pc = "loop"
    /\ gameState.player.isDead
    /\ gameState.player.health <= 0
    /\ respawnTimers = 1

----------------------------------------------------------------------------
(* SpecCorridor: a wall standing on the floor, as 'floor' and 'wall2' of
   SANDBOX_LEVEL; a Walker of the arena template corners the player there *)

CorridorTicks == 80
CorridorEvents == 2

Corridor ==
    [platforms   |-> <<Rect(-PX(1000), PX(600), PX(2500), PX(200)),
                       Rect(-PX(200), PX(100), PX(100), PX(500))>>,
     killPlaneY  |-> PX(1500),
     playerStart |-> [x |-> -PX(40), y |-> PX(536)],
     enemies     |-> <<Walker("spawn_1", PX(15), PX(540), 60, "CHASE", FALSE,
                              PX(300), PX(800), PX(60))>>,
     spawners    |-> << >>]

CorridorKeys == {"JUMP"}

InitCorridor == InitWith(Corridor)

NextCorridor ==
    \/ ticks < CorridorTicks /\ Loop(FrameDelta)
    \/ Tick
    \/ \E c \in CorridorKeys : events < CorridorEvents /\ KeyDown(c)
    \/ \E c \in CorridorKeys : events < CorridorEvents /\ KeyUp(c)

SpecCorridor == InitCorridor /\ [][NextCorridor]_vars

NoPlatformOverlap(player, platforms) ==
    \A i \in 1..Len(platforms) : ~checkAABB(player, platforms[i])

\* C7: on every tick that reaches movePlayer, the player's hitbox overlaps no
\* platform rectangle immediately after movePlayer returns, whatever the
\* tick started from (a push by an enemy, a knockback, a respawn).
C7_NoOverlapAfterMovePlayer ==
    (pc = "loop" /\ RunsFullTick(gameState, level.killPlaneY))
        => \A crit \in CritRolls(gameState, inputState) :
               NoPlatformOverlap(
                   AfterMovePlayer(gameState, physicsProfile, inputState,
                                   level, crit).player,
                   level.platforms)

----------------------------------------------------------------------------
(* SpecLedge: the right end of a floor above the kill plane; the player drops
   onto it from the level start, a patrolling Walker paces further left, and
   the display runs at 20 Hz (three ticks per frame) *)

LedgeTicks == 36
LedgeEvents == 3

Ledge ==
    [platforms   |-> <<Rect(-PX(400), PX(600), PX(520), PX(200))>>,
     killPlaneY  |-> PX(560),
     playerStart |-> [x |-> PX(100), y |-> PX(500)],
     enemies     |-> <<Walker("drone1", -PX(300), PX(540), 60, "PATROL", TRUE,
                              PX(50), PX(100), PX(60))>>,
     spawners    |-> << >>]

LedgeKeys == {"RIGHT", "JUMP"}

LedgeDelta == 3 * FrameDelta

InitLedge == InitWith(Ledge)

NextLedge ==
    \/ ticks < LedgeTicks /\ Loop(LedgeDelta)
    \/ Tick
    \/ Respawn
    \/ \E c \in LedgeKeys : events < LedgeEvents /\ KeyDown(c)
    \/ events < LedgeEvents /\ TogglePause

SpecLedge == InitLedge /\ [][NextLedge]_vars

\* C11: on every tick that starts with hitStopTimer = 0 and the player
\* already dead, nothing in the game state changes: no timer of the player
\* decrements, no input is sampled or edge-detected, and the enemies are not
\* updated.
C11_DeadTickChangesNothing ==
    [][(IsTick /\ gameState.hitStopTimer = 0 /\ gameState.player.isDead)
        => (gameState' = gameState /\ inputState' = inputState)]_vars

\* inside one frame a tick has already run over the dead player while JUMP was
\* held, and the press is still unsampled
C11_Witness ==
    /\ pc = "loop"
    /\ frame.ticksExecuted = 2
    /\ gameState.hitStopTimer = 0
    /\ gameState.player.isDead
    /\ inputState.JUMP
    /\ ~gameState.player.lastJumpInput

\* a step in which a pending respawn callback runs
RespawnFires == respawnTimers' = respawnTimers - 1

\* the player as the callback leaves it
Revived(p) ==
    [p EXCEPT !.isDead = FALSE, !.health = p.maxHealth,
              !.velocity = [x |-> 0, y |-> 0],
              !.position = p.respawnPosition,
              !.invincibilityTimer = 60]

\* the tick records a new respawn position: after movePlayer the player is
\* grounded with |velocity.x| < 0.1 at that position
RecordsGroundedPosition ==
    /\ IsTick
    /\ RunsFullTick(gameState, level.killPlaneY)
    /\ \E crit \in CritRolls(gameState, inputState) :
         LET m == AfterMovePlayer(gameState, physicsProfile, inputState,
                                  level, crit).player
         IN  /\ m.isGrounded
             /\ Abs(m.velocity.x) < 1
             /\ gameState'.player.respawnPosition = m.position

\* C12: whenever the respawn callback fires the player is dead, and it sets
\* isDead = false, health = maxHealth, velocity = (0,0), position = the last
\* respawnPosition and invincibilityTimer = 60 in one step, after which the
\* death condition is false; respawnPosition starts as the level start and
\* changes only to a position at which the player was grounded with
\* |velocity.x| < 0.1.
C12_RespawnRestoresPlayer ==
    /\ [][RespawnFires =>
            /\ gameState.player.isDead
            /\ gameState' = [gameState EXCEPT !.player = Revived(@)]
            /\ ~DeathCondition(gameState', level.killPlaneY)]_vars
    /\ [][(gameState'.player.respawnPosition # gameState.player.respawnPosition)
            => RecordsGroundedPosition]_vars

\* the callback has fired while the game was paused and put the player back
\* on the spot of the floor where they first landed
C12_Witness ==
    /\ isPaused
    /\ respawnTimers = 0
    /\ ~gameState.player.isDead
    /\ gameState.player.invincibilityTimer = 60
    /\ gameState.player.health = gameState.player.maxHealth
    /\ gameState.player.position = gameState.player.respawnPosition
    /\ gameState.player.respawnPosition # level.playerStart

----------------------------------------------------------------------------
(* SpecShaft: the player starts in the air against the left face of a wall
   standing on the floor, as 'wall' and 'floor' of SANDBOX_LEVEL, and presses
   and releases JUMP *)

ShaftTicks == 14
ShaftEvents == 5

Shaft ==
    [platforms   |-> <<Rect(-PX(1000), PX(600), PX(2500), PX(200)),
                       Rect(PX(132), PX(100), PX(100), PX(500))>>,
     killPlaneY  |-> PX(1500),
     playerStart |-> [x |-> PX(100), y |-> PX(530)],
     enemies     |-> << >>,
     spawners    |-> << >>]

ShaftKeys == {"JUMP"}

InitShaft == InitWith(Shaft)

NextShaft ==
    \/ ticks < ShaftTicks /\ Loop(FrameDelta)
    \/ Tick
    \/ \E c \in ShaftKeys : events < ShaftEvents /\ KeyDown(c)
    \/ \E c \in ShaftKeys : events < ShaftEvents /\ KeyUp(c)

SpecShaft == InitShaft /\ [][NextShaft]_vars

\* the branch the priority rule selects for a player about to jump
SelectedJump(p) ==
    IF p.jumpBufferTimer = 0 THEN "none"
    ELSE IF p.isWallSliding THEN "wall"
    ELSE IF p.isGrounded \/ p.coyoteTimer > 0 THEN "ground"
    ELSE IF ~p.isGrounded /\ p.canDoubleJump THEN "double"
    ELSE "none"

\* j is p after exactly the selected branch: its impulse and no other one
OnlySelectedFires(p, j, profile) ==
    /\ SelectedJump(p) = "none" => j = p
    /\ SelectedJump(p) # "none" => j.jumpBufferTimer = 0
    /\ SelectedJump(p) = "wall" =>
         /\ j.velocity = [x |-> (-p.wallDir) * profile.wallJumpForce.x,
                          y |-> -profile.wallJumpForce.y]
         /\ ~j.isWallSliding /\ j.canDoubleJump /\ j.isJumping = p.isJumping
    /\ SelectedJump(p) = "ground" =>
         /\ j.velocity = [x |-> p.velocity.x, y |-> -profile.jumpForce]
         /\ ~j.isGrounded /\ j.isJumping /\ j.canDoubleJump /\ j.coyoteTimer = 0
    /\ SelectedJump(p) = "double" =>
         /\ j.velocity = [x |-> p.velocity.x, y |-> -profile.doubleJumpForce]
         /\ ~j.canDoubleJump /\ j.isJumping /\ j.coyoteTimer = p.coyoteTimer

\* a tick that reaches the jump branches
ReachesJumping(crit) ==
    /\ IsTick
    /\ RunsFullTick(gameState, level.killPlaneY)
    /\ ~DashMoves(BeforeMove(gameState, physicsProfile, inputState, crit))

\* the player as this tick's jump branches find it
PlayerBeforeJumping(crit) ==
    BeforeJumping(BeforeMove(gameState, physicsProfile, inputState, crit).player,
                  physicsProfile, inputState, level.platforms)

\* C14: on every tick at most one of the three jump branches fires, in the
\* priority wall-jump > ground/coyote jump > double jump: with a buffered
\* jump the wall-jump fires iff isWallSliding, otherwise the ground jump iff
\* grounded or coyoteTimer > 0, otherwise the double jump iff airborne and
\* canDoubleJump; the branch that fires leaves jumpBufferTimer at 0 for the
\* rest of the tick, and the buffer is refilled only by a new press edge.
C14_OneJumpBranchPerTick ==
    /\ [][\A crit \in CritRolls(gameState, inputState) :
            ReachesJumping(crit) =>
                /\ OnlySelectedFires(PlayerBeforeJumping(crit),
                                     JumpImpulse(PlayerBeforeJumping(crit),
                                                 physicsProfile),
                                     physicsProfile)
                /\ SelectedJump(PlayerBeforeJumping(crit)) # "none"
                       => gameState'.player.jumpBufferTimer = 0]_vars
    /\ [][(gameState'.player.jumpBufferTimer > gameState.player.jumpBufferTimer)
            => (IsTick /\ inputState.JUMP /\ ~gameState.player.lastJumpInput)]_vars

\* a tick is about to buffer a fresh JUMP press for a player who slid down the
\* wall on the tick before and still holds the double jump: the wall-jump and
\* the double jump compete
C14_Witness ==
    /\ pc = "loop"
    /\ gameState.hitStopTimer = 0
    /\ inputState.JUMP
    /\ ~gameState.player.lastJumpInput
    /\ gameState.player.isWallSliding
    /\ gameState.player.velocity.y > 0
    /\ gameState.player.canDoubleJump

\* the double jump is armed by the tick: canDoubleJump goes from false to true
Rearmed ==
    ~gameState.player.canDoubleJump /\ gameState'.player.canDoubleJump

\* the tick's combat phase starts the air launcher
LauncherStarts(crit) ==
    /\ RunsFullTick(gameState, level.killPlaneY)
    /\ BeforeMove(gameState, physicsProfile, inputState, crit).player.activeAnim
           = "ATTACK_AIR_A"
    /\ inputState.ATTACK /\ ~gameState.player.lastAttackInput

\* C15 as stated: between two consecutive ticks that end grounded the
\* double-jump branch fires at most once, wall-jumps in between included.
C15_OneDoubleJumpPerAirborne == airJumps <= 1

\* C15: the double jump is usable once per arming: the double-jump branch
\* fires only with canDoubleJump true and leaves it false, and canDoubleJump
\* becomes true again only on a tick that ends grounded, fires the wall-jump
\* or the ground jump, or starts the air launcher.
C15_OneDoubleJumpPerArming ==
    [][IsTick =>
        \A crit \in CritRolls(gameState, inputState) :
            /\ DoubleJumpFires(gameState, physicsProfile, inputState, level, crit)
                 => /\ PlayerBeforeJumping(crit).canDoubleJump
                    /\ ~gameState'.player.canDoubleJump
            /\ Rearmed =>
                 \/ gameState'.player.isGrounded
                 \/ LauncherStarts(crit)
                 \/ /\ ReachesJumping(crit)
                    /\ JumpBranch(PlayerBeforeJumping(crit)) \in {"wall", "ground"}]_vars

\* the second double jump of one airborne period has just fired, re-armed by a
\* wall-jump
C15_Witness ==
    /\ airJumps = 2
    /\ ~gameState.player.isGrounded
    /\ ~gameState.player.canDoubleJump

----------------------------------------------------------------------------
(* SpecYard: two spawners in the manner of SANDBOX_LEVEL's arena_spawner, with
   small caps and intervals, and the idle player on a ledge high above and left
   of them.  'pen' spawns Walkers, which walk out of its zone on their way to
   the player; 'roost' spawns Flyers, which rise above the top of its zone *)

YardTicks == 8

\* the enemyTemplate of arena_spawner
ArenaTemplate ==
    [width |-> PX(40), height |-> PX(60), health |-> 60, maxHealth |-> 60,
     state |-> "CHASE", patrolRange |-> PX(300), detectionRange |-> PX(800),
     attackRange |-> PX(60)]

Spawner(id, zone, maxEnemies, spawnInterval, enemyTemplate) ==
    [id |-> id, zone |-> zone, maxEnemies |-> maxEnemies,
     spawnInterval |-> spawnInterval, spawnTimer |-> 0,
     activeEnemyIds |-> << >>, enemyTemplate |-> enemyTemplate]

Yard ==
    [platforms   |-> <<Rect(-PX(1000), PX(600), PX(2000), PX(200)),
                       Rect(-PX(400), -PX(300), PX(300), PX(50))>>,
     killPlaneY  |-> PX(1500),
     playerStart |-> [x |-> -PX(150), y |-> -PX(364)],
     enemies     |-> << >>,
     spawners    |-> <<Spawner("pen", Rect(0, PX(400), PX(200), PX(200)), 2, 3,
                               MergeProfile(ArenaTemplate,
                                            [type |-> "WALKER",
                                             facingRight |-> FALSE])),
                       Spawner("roost", Rect(-PX(600), PX(400), PX(1000), PX(200)),
                               1, 3,
                               MergeProfile(ArenaTemplate,
                                            [type |-> "FLYER", width |-> PX(40),
                                             height |-> PX(40),
                                             facingRight |-> FALSE]))>>]

InitYard == InitWith(Yard)

NextYard ==
    \/ ticks < YardTicks /\ Loop(FrameDelta)
    \/ Tick

SpecYard == InitYard /\ [][NextYard]_vars

\* the ids spawner k tracks
Owned(s, k) == {s.spawners[k].activeEnemyIds[n] : n \in DOMAIN s.spawners[k].activeEnemyIds}

\* the ids spawner k tracks after this step and did not track before it
NewlyOwned(k) == Owned(gameState', k) \ Owned(gameState, k)

\* the ids spawner k still tracks after this step's cleanup
StillOwned(k) == Owned(gameState', k) \cap Owned(gameState, k)

\* C16: for every spawner, after every tick, activeEnemyIds holds at most
\* maxEnemies ids; a spawner spawns at most one enemy per tick, only on a tick
\* where the ids it still owns are fewer than maxEnemies and its timer reaches
\* zero, and its timer is decremented only on ticks where the owned count is
\* below the cap.
C16_SpawnerCapAndTimer ==
    /\ [](\A k \in DOMAIN gameState.spawners :
            Len(gameState.spawners[k].activeEnemyIds)
                <= gameState.spawners[k].maxEnemies)
    /\ [][\A k \in DOMAIN gameState.spawners :
            /\ Cardinality(NewlyOwned(k)) <= 1
            /\ Len(gameState'.enemies) - Len(gameState.enemies)
                   <= Len(gameState.spawners)
            /\ NewlyOwned(k) # {} =>
                   /\ IsTick
                   /\ Cardinality(StillOwned(k)) < gameState.spawners[k].maxEnemies
                   /\ gameState.spawners[k].spawnTimer - 1 <= 0
                   /\ gameState'.spawners[k].spawnTimer
                          = gameState.spawners[k].spawnInterval
            /\ (NewlyOwned(k) = {}
                /\ gameState'.spawners[k].spawnTimer
                       # gameState.spawners[k].spawnTimer) =>
                   /\ IsTick
                   /\ gameState'.spawners[k].spawnTimer
                          = gameState.spawners[k].spawnTimer - 1
                   /\ Cardinality(Owned(gameState', k))
                          < gameState.spawners[k].maxEnemies]_vars

\* 'pen' has been full for a tick with its timer standing still, after it had
\* lost a Walker and spawned the next
C16_Witness ==
    /\ Len(gameState.spawners[1].activeEnemyIds) = gameState.spawners[1].maxEnemies
    /\ gameState.spawners[1].spawnTimer = gameState.spawners[1].spawnInterval
    /\ Len(gameState.enemies) >= 4
    /\ \E i \in DOMAIN gameState.enemies :
           gameState.enemies[i].type = "WALKER" /\ gameState.enemies[i].isDead

\* the enemy's center lies between the zone's sides and not below its bottom
InsideSidesAndBottom(e, zone) ==
    /\ zone.x <= e.position.x + e.width \div 2
    /\ e.position.x + e.width \div 2 <= zone.x + zone.width
    /\ e.position.y + e.height \div 2 <= zone.y + zone.height

\* spawner k tracks the live enemy at index i
OwnsLive(s, k, i) ==
    /\ s.enemies[i].id \in Owned(s, k)
    /\ ~s.enemies[i].isDead
    /\ \A j \in 1..(i - 1) : s.enemies[j].id # s.enemies[i].id

\* what the cleanup of spawner k does to the enemy at index i of s, r being the
\* state the cleanup leaves
CleanupOutcome(s, k, i, r) ==
    /\ Len(r.enemies) = Len(s.enemies)
    /\ (OwnsLive(s, k, i) /\ InsideSidesAndBottom(s.enemies[i], s.spawners[k].zone))
           => /\ r.enemies[i] = s.enemies[i]
              /\ s.enemies[i].id \in Owned(r, k)
    /\ (OwnsLive(s, k, i) /\ ~InsideSidesAndBottom(s.enemies[i], s.spawners[k].zone))
           => /\ r.enemies[i] = [s.enemies[i] EXCEPT !.isDead = TRUE, !.health = 0]
              /\ s.enemies[i].id \notin Owned(r, k)
    /\ s.enemies[i].id \notin Owned(s, k) => r.enemies[i] = s.enemies[i]

----------------------------------------------------------------------------
(* SpecTrack: SANDBOX_LEVEL's floor with nothing on it to the right of the
   player, who can run; a Walker stands in PATROL 50 px to the player's left *)

TrackTicks == 12

TrackEvents == 3

Track ==
    [platforms   |-> <<Rect(-PX(1000), PX(600), PX(5000), PX(200))>>,
     killPlaneY  |-> PX(1500),
     playerStart |-> [x |-> PX(100), y |-> PX(536)],
     enemies     |-> <<Walker("drone1", PX(50), PX(540), 60, "PATROL", TRUE,
                              PX(200), PX(300), PX(60))>>,
     spawners    |-> << >>]

InitTrack == InitWith(Track)

NextTrack ==
    \/ ticks < TrackTicks /\ Loop(FrameDelta)
    \/ Tick
    \/ events < TrackEvents /\ KeyDown("RIGHT")
    \/ events < TrackEvents /\ KeyUp("RIGHT")

SpecTrack == InitTrack /\ [][NextTrack]_vars

\* a live Walker about to start an update within attackRange of the player
\* with its attack cooldown elapsed
InReachAndReady(e, player) ==
    /\ e.type = "WALKER" /\ ~e.isDead /\ e.maxHealth <= DUMMY_HEALTH
    /\ e.attackRange > 0
    /\ DistLess(e.position, player.position, e.attackRange)
    /\ e.attackCooldownTimer = 0

\* the enemy has just started its attack sequence
StartsCharge(r) ==
    /\ r.state = "ATTACK"
    /\ r.chargeTimer = 40
    /\ r.attackDurationTimer = 0
    /\ r.velocity.x = 0

\* the enemy the update leaves, whatever the update draws
AfterUpdate(e, P(_)) ==
    \A cooldown \in WalkerCooldowns : \A hover \in HoverOffsets :
        P(EnemyUpdate(e, gameState.player, physicsProfile, level.platforms,
                      cooldown, hover).enemy)

\* a PATROL Walker that detects the player only starts to chase
StartsChase(r) ==
    /\ r.state = "CHASE"
    /\ r.chargeTimer = 0
    /\ Abs(r.velocity.x) = CHASE_SPEED

\* C18 as stated: a Walker that starts an enemy update in PATROL or in CHASE
\* within attackRange (> 0) of the player and with attackCooldownTimer = 0 is
\* in ATTACK at the end of that same update, with chargeTimer = 40,
\* attackDurationTimer = 0 and horizontal velocity 0.
C18_PatrolOrChaseAttacks ==
    \A i \in DOMAIN gameState.enemies :
        (/\ InReachAndReady(gameState.enemies[i], gameState.player)
         /\ gameState.enemies[i].state \in {"PATROL", "CHASE"})
            => AfterUpdate(gameState.enemies[i], StartsCharge)

\* C18: a Walker that starts an enemy update in CHASE within attackRange (> 0)
\* of the player, no further from it than 1.5 times detectionRange, and with
\* attackCooldownTimer = 0 is in ATTACK at the end of that same update, with
\* chargeTimer = 40, attackDurationTimer = 0 and horizontal velocity 0; one
\* that starts the update in PATROL within detectionRange ends it in CHASE,
\* moving at the chase speed with no charge started.
C18_ChaseAttacks ==
    \A i \in DOMAIN gameState.enemies :
        /\ (/\ InReachAndReady(gameState.enemies[i], gameState.player)
            /\ gameState.enemies[i].state = "CHASE"
            /\ ~DistMoreThanOneAndHalf(gameState.enemies[i].position,
                                       gameState.player.position,
                                       gameState.enemies[i].detectionRange))
               => AfterUpdate(gameState.enemies[i], StartsCharge)
        /\ (/\ InReachAndReady(gameState.enemies[i], gameState.player)
            /\ gameState.enemies[i].state = "PATROL"
            /\ gameState.enemies[i].chargeTimer = 0
            /\ DistLess(gameState.enemies[i].position, gameState.player.position,
                        gameState.enemies[i].detectionRange))
               => AfterUpdate(gameState.enemies[i], StartsChase)

\* the Walker has gone from PATROL to CHASE on the first tick and from CHASE
\* to the start of its charge on the second
C18_Witness ==
    /\ ticks = 2
    /\ pc = "idle"
    /\ StartsCharge(gameState.enemies[1])
    /\ DistLess(gameState.enemies[1].position, gameState.player.position,
                gameState.enemies[1].attackRange)

\* the values approach is sampled at
ApproachSamples == -4 .. 4

\* approach moves val toward target by at most maxMove and never past it
ApproachNeverOvershoots ==
    \A val \in ApproachSamples : \A target \in ApproachSamples :
    \A maxMove \in 0 .. 4 :
        /\ Abs(approach(val, target, maxMove) - val) <= maxMove
        /\ Abs(approach(val, target, maxMove) - target) <= Abs(val - target)
        /\ (val <= target) => (val <= approach(val, target, maxMove)
                               /\ approach(val, target, maxMove) <= target)
        /\ (val >= target) => (val >= approach(val, target, maxMove)
                               /\ approach(val, target, maxMove) >= target)
        /\ Abs(approach(val, target, maxMove) - val) = Min(maxMove, Abs(val - target))

\* C20: for a player that stays grounded, is not attacking or dashing, holds
\* RIGHT only and meets no wall or enemy, starting from velocity.x = 0 with
\* groundAccel = 1.2 and runSpeed = 9.0, velocity.x is min(1.2 * n, 9.0) after
\* n ticks: 1.2 after one tick and 9.0 from the 8th tick on; approach moves
\* val toward target by at most maxMove and never overshoots target.
C20_RunAcceleration ==
    /\ (physicsProfile.groundAccel = 12 /\ physicsProfile.runSpeed = PX(9)
        /\ runTicks > 0)
           => gameState.player.velocity.x = Min(12 * runTicks, PX(9))
    /\ ApproachNeverOvershoots

\* the ninth tick of a run: the speed has stood at 9.0 for a tick
C20_Witness ==
    /\ runTicks = 9
    /\ gameState.player.velocity.x = PX(9)
    /\ physicsProfile.groundAccel = 12
    /\ inputState.RIGHT

----------------------------------------------------------------------------
(* SpecMob: the idle player on SANDBOX_LEVEL's floor against each source of
   damage in turn: two Walkers flanking the player and swinging on the same
   ticks, a Turret in range at the player's height, a Flyer in range above *)

MobTicks == 95

\* an enemy of the given type with the sizes, health and range the spawner
\* gives that type
EnemyOf(type, id, x, y, facingRight) ==
    MergeProfile(Walker(id, x, y, 60, "CHASE", facingRight, 0, PX(600), PX(60)),
                 IF type = "FLYER"
                 THEN [type |-> "FLYER", width |-> PX(40), height |-> PX(40),
                       health |-> 40, maxHealth |-> 40, attackRange |-> PX(400)]
                 ELSE IF type = "TURRET"
                 THEN [type |-> "TURRET", width |-> PX(50), height |-> PX(50),
                       health |-> 80, maxHealth |-> 80, attackRange |-> PX(500)]
                 ELSE [type |-> "WALKER"])

MobLevel(enemies) ==
    [platforms   |-> <<Rect(-PX(1000), PX(600), PX(5000), PX(200))>>,
     killPlaneY  |-> PX(1500),
     playerStart |-> [x |-> PX(1000), y |-> PX(536)],
     enemies     |-> enemies,
     spawners    |-> << >>]

Flank ==
    MobLevel(<<EnemyOf("WALKER", "left", PX(950), PX(540), TRUE),
               EnemyOf("WALKER", "right", PX(1040), PX(540), FALSE)>>)

Battery == MobLevel(<<EnemyOf("TURRET", "turret", PX(1200), PX(550), FALSE)>>)

Swoop == MobLevel(<<EnemyOf("FLYER", "flyer", PX(1150), PX(400), FALSE)>>)

InitMob == \E lvl \in {Flank, Battery, Swoop} : InitWith(lvl)

NextMob ==
    \/ ticks < MobTicks /\ Loop(FrameDelta)
    \/ Tick

SpecMob == InitMob /\ [][NextMob]_vars

\* the damage of each source
DamageOf(e) ==
    IF e.type = "FLYER" THEN 20 ELSE IF e.type = "TURRET" THEN 25 ELSE 15

\* what an enemy's update may do to the player: nothing, or one damagePlayer
\* called on a player with no i-frames left who is not dead
GatedDamage(e, player, after) ==
    \/ after = player
    \/ /\ player.invincibilityTimer = 0
       /\ ~player.isDead
       /\ after = damagePlayer(player, DamageOf(e), e.position.x)

\* C13: player.health decreases only through damagePlayer, and damagePlayer
\* is applied only when, at the moment of the call, invincibilityTimer = 0
\* and isDead = false, for the Walker's swing, the Turret's beam and the
\* Flyer's dive; at most one damagePlayer is applied per tick even when
\* several enemies attack on the same tick.
C13_DamageGated ==
    /\ [](\A i \in DOMAIN gameState.enemies :
          \A cooldown \in WalkerCooldowns : \A hover \in HoverOffsets :
              GatedDamage(gameState.enemies[i], gameState.player,
                          EnemyUpdate(gameState.enemies[i], gameState.player,
                                      physicsProfile, level.platforms,
                                      cooldown, hover).player))
    /\ [][gameState'.player.health < gameState.player.health =>
            /\ IsTick
            /\ RunsFullTick(gameState, level.killPlaneY)
            /\ gameState.player.invincibilityTimer <= 1
            /\ ~gameState.player.isDead
            /\ gameState.player.health - gameState'.player.health \in {15, 20, 25}
            /\ gameState'.player.invincibilityTimer = PLAYER_I_FRAMES
            /\ gameState'.player.comboCount = 0]_vars

\* both Walkers are inside their swing windows with the player in reach of
\* both, and the player has just taken the one hit of 15
C13_Witness ==
    /\ level = Flank
    /\ gameState.player.health = PLAYER_MAX_HEALTH - 15
    /\ gameState.player.invincibilityTimer = PLAYER_I_FRAMES
    /\ \A i \in DOMAIN gameState.enemies :
           /\ gameState.enemies[i].state = "ATTACK"
           /\ gameState.enemies[i].chargeTimer = 0
           /\ gameState.enemies[i].attackDurationTimer < 18
           /\ gameState.enemies[i].attackDurationTimer > 5

----------------------------------------------------------------------------
(* SpecStand: the player between a Turret on the left, whose beam takes 25
   every 280 ticks, and a training dummy in sword reach on the right; the
   player stands idle until the fourth beam is about to fire and may then
   strike the dummy *)

StandTicks == 945

StandFrom == 915

StandEvents == 2

Stand ==
    MobLevel(<<EnemyOf("TURRET", "turret", PX(800), PX(550), TRUE),
               Walker("dummy1", PX(1050), PX(540), 9999, "IDLE", FALSE, 0, 0, 0)>>)

InitStand == InitWith(Stand)

NextStand ==
    \/ ticks < StandTicks /\ Loop(FrameDelta)
    \/ Tick
    \/ Respawn
    \/ ticks >= StandFrom /\ events < StandEvents /\ KeyDown("ATTACK")
    \/ ticks >= StandFrom /\ events < StandEvents /\ KeyUp("ATTACK")

SpecStand == InitStand /\ [][NextStand]_vars


\* the player has been taken to no health and the death check has not run yet
DeathPending == gameState.player.health <= 0 /\ ~gameState.player.isDead

\* C19: when damagePlayer takes health to <= 0, comboCount is 0 right after
\* the call and isDead stays false for the rest of that tick; isDead becomes
\* true at the next executed death check, that is on the next tick that
\* starts with hitStopTimer = 0, and no damage is applied to the player in
\* between.
C19_LethalHit ==
    /\ [](\A amount \in {15, 20, 25} :
            /\ damagePlayer(gameState.player, amount, 0).comboCount = 0
            /\ damagePlayer(gameState.player, amount, 0).isDead
                   = gameState.player.isDead)
    /\ [][(gameState.player.health > 0 /\ gameState'.player.health <= 0) =>
            /\ IsTick
            /\ gameState'.player.comboCount = 0
            /\ ~gameState'.player.isDead]_vars
    /\ [][DeathPending =>
            /\ gameState'.player.health = gameState.player.health
            /\ gameState'.player.isDead = (IsTick /\ gameState.hitStopTimer = 0)]_vars

\* the beam has taken the last 25 on the tick the player's sword hit the
\* dummy: the hit-stop holds the death check off
C19_Witness ==
    /\ DeathPending
    /\ gameState.hitStopTimer > 0
    /\ gameState.player.isAttacking
    /\ gameState.player.comboCount = 0
    /\ pc = "idle"

----------------------------------------------------------------------------
(* Entity collisions, on the state resolveEntityCollisions starts from *)

\* the draws a tick can make in the current state
TickRolls ==
    [crit : CritRolls(gameState, inputState), cooldown : CooldownRolls(gameState),
     spawn : SpawnRolls(gameState), hover : HoverRolls(gameState)]

\* a full tick that takes the normal branch of the move, whatever it draws
ReachesCollisions(rnd) ==
    /\ IsTick
    /\ RunsFullTick(gameState, level.killPlaneY)
    /\ ~DashMoves(BeforeMove(gameState, physicsProfile, inputState, rnd.crit))

\* the state after updateEnemies on this tick
BeforeCollisions(rnd) ==
    updateEnemies(
        BeforeEnemies(NormalMove(BeforeMove(gameState, physicsProfile, inputState,
                                            rnd.crit),
                                 physicsProfile, inputState, level),
                      physicsProfile, rnd),
        physicsProfile, level.platforms, rnd)

\* the player and the live enemy at index i of m overlap
PlayerOverlaps(m, i) ==
    /\ ~m.enemies[i].isDead
    /\ Overlap2X(m.player, PLAYER_W, m.enemies[i], m.enemies[i].width) > 0
    /\ Overlap2Y(m.player, PLAYER_H, m.enemies[i], m.enemies[i].height) > 0

\* the pair solveOverlap leaves for the player and the enemy at index i of m
PlayerSolved(m, i) ==
    solveOverlap(m.player, PLAYER_W, PLAYER_H, m.enemies[i],
                 m.enemies[i].width, m.enemies[i].height)

\* both bodies have no velocity left along the axis of the smaller overlap
ResolvedAxisStill(m, i, r) ==
    IF Overlap2X(m.player, PLAYER_W, m.enemies[i], m.enemies[i].width)
           < Overlap2Y(m.player, PLAYER_H, m.enemies[i], m.enemies[i].height)
    THEN r.first.velocity.x = 0 /\ r.second.velocity.x = 0
    ELSE r.first.velocity.y = 0 /\ r.second.velocity.y = 0

\* C21: whenever solveOverlap finds two entities overlapping it resolves
\* along the axis of smaller penetration and, on both entities, the velocity
\* component along the resolved axis is exactly 0 afterwards, whether the
\* resolved axis is X or Y.
C21_ResolvedVelocityZero ==
    [][\A rnd \in TickRolls :
        ReachesCollisions(rnd) =>
            \A i \in DOMAIN BeforeCollisions(rnd).enemies :
                PlayerOverlaps(BeforeCollisions(rnd), i)
                    => ResolvedAxisStill(BeforeCollisions(rnd), i,
                                         PlayerSolved(BeforeCollisions(rnd), i))]_vars

----------------------------------------------------------------------------
(* The Flyer's attack *)

\* a live Flyer in the charge phase of its attack
Charging(e) ==
    e.type = "FLYER" /\ ~e.isDead /\ e.state = "ATTACK" /\ e.chargeTimer > 0

\* C22: a Flyer that enters ATTACK stops: on every enemy update in which it
\* is in ATTACK with chargeTimer > 0 its position does not change; it moves
\* again only once the charge has completed and the dive has started.
C22_ChargingFlyerStationary ==
    \A i \in DOMAIN gameState.enemies :
        Charging(gameState.enemies[i]) =>
            \A hover \in HoverOffsets :
                EnemyUpdate(gameState.enemies[i], gameState.player, physicsProfile,
                            level.platforms, 60, hover).enemy.position
                    = gameState.enemies[i].position

----------------------------------------------------------------------------
(* The length of the enemies list *)

\* the sum of the population caps of the first k spawners
RECURSIVE CapsUpTo(_, _)
CapsUpTo(spawners, k) ==
    IF k = 0 THEN 0 ELSE spawners[k].maxEnemies + CapsUpTo(spawners, k - 1)

\* C23: every enemy marked dead is removed from GameState.enemies, so the
\* length of the enemies list stays bounded by the initial level enemies plus
\* the spawners' population caps.
C23_EnemiesBounded ==
    Len(gameState.enemies)
        <= Len(level.enemies) + CapsUpTo(level.spawners, Len(level.spawners))

----------------------------------------------------------------------------
(* Slow motion, under SpecLoop *)

\* an unpaused call of loop()
UnpausedFrame == frame' # frame /\ pc = "idle" /\ ~isPaused

\* C24: timeScale is below 1.0 only while slowMoTimer > 0, and is 1.0 as soon
\* as the timer is <= 0; slowMoTimer decreases by the real elapsed time on
\* every unpaused frame, also on frames whose ticks are frozen by hit-stop,
\* and is raised only by a dash-attack hit, to 1000 ms: slow motion ends
\* within 1000 ms of unpaused real time after the last dash-attack hit.
C24_SlowMotionEnds ==
    /\ [](gameState.timeScale < 5 <=> gameState.slowMoTimer > 0)
    /\ [](gameState.timeScale \in {1, 5} /\ gameState.slowMoTimer <= 3 * SLOWMO_MS)
    /\ [][(UnpausedFrame /\ gameState.slowMoTimer > 0)
            => gameState'.slowMoTimer = gameState.slowMoTimer - frame'.delta]_vars
    /\ [][gameState'.slowMoTimer > gameState.slowMoTimer
            => /\ IsTick
               /\ gameState'.slowMoTimer = 3 * SLOWMO_MS
               /\ gameState'.timeScale = 1
               /\ gameState'.hitStopTimer = 8]_vars
    /\ [][gameState'.slowMoTimer < gameState.slowMoTimer => UnpausedFrame]_vars

\* a frame has returned with every tick frozen by the dash-attack's hit-stop,
\* and the slow-motion timer has run down by the frame's real time
C24_Witness ==
    /\ pc = "idle"
    /\ ~frame.paused
    /\ gameState.hitStopTimer > 0
    /\ gameState.timeScale = 1
    /\ gameState.slowMoTimer > 0
    /\ gameState.slowMoTimer < 3 * SLOWMO_MS
    /\ frame.ticksExecuted > 0

----------------------------------------------------------------------------
(* Determinism of the tick *)

\* the gameplay fields of an enemy: everything but its id
EnemyGameplay(e) ==
    [type |-> e.type, position |-> e.position, velocity |-> e.velocity,
     health |-> e.health, isDead |-> e.isDead, state |-> e.state,
     facingRight |-> e.facingRight, hitTimer |-> e.hitTimer,
     attackCooldownTimer |-> e.attackCooldownTimer,
     attackDurationTimer |-> e.attackDurationTimer, chargeTimer |-> e.chargeTimer]

\* the gameplay state: the player, every enemy, every spawner's timer and
\* owned count
Gameplay(s) ==
    [player   |-> s.player,
     enemies  |-> [i \in DOMAIN s.enemies |-> EnemyGameplay(s.enemies[i])],
     spawners |-> [k \in DOMAIN s.spawners |->
                      [spawnTimer |-> s.spawners[k].spawnTimer,
                       owned |-> Len(s.spawners[k].activeEnemyIds)]]]

\* C25: tick determinism: from the same GameState, with the same
\* PhysicsProfile and the same input sample, a tick leaves the same gameplay
\* state whatever the clock reads and whatever the random source draws.
C25_TickDeterministic ==
    (pc = "loop" /\ accumulator >= FIXED_TIMESTEP) =>
        \A r1 \in TickRolls : \A r2 \in TickRolls :
            Gameplay(updatePhysics(gameState, physicsProfile, inputState, level, r1))
                = Gameplay(updatePhysics(gameState, physicsProfile, inputState,
                                         level, r2))


(* The end of the Flyer's attack, under SpecMob *)
Attacking(e) == e.type = "FLYER" /\ ~e.isDead /\ e.state = "ATTACK"

BackInChase(e) == e.state = "CHASE" /\ e.attackCooldownTimer > 0

NearerItsEnd(e, u) ==
    /\ u.state = "ATTACK"
    /\ \/ u.chargeTimer < e.chargeTimer
       \/ /\ e.chargeTimer = 0
          /\ u.chargeTimer = 0
          /\ u.attackDurationTimer < e.attackDurationTimer

EnemiesUpdated == \E rnd \in TickRolls : ReachesCollisions(rnd)

(* C26: every Flyer in ATTACK eventually returns to CHASE with a positive    *)
(* attackCooldownTimer under continued enemy updates, unless the player hits *)
(* it: each tick that updates the enemies either returns an attacking Flyer  *)
(* to CHASE with a positive cooldown or brings its attack nearer its end (a  *)
(* lower chargeTimer or, once the charge is over, a lower                    *)
(* attackDurationTimer), so that no Flyer remains in ATTACK for ever.        *)
C26_AttackingFlyerReturns ==
    [][EnemiesUpdated =>
        \A i \in DOMAIN gameState.enemies :
            (Attacking(gameState.enemies[i]) /\ gameState'.enemies[i].state # "HIT") =>
                \/ BackInChase(gameState'.enemies[i])
                \/ NearerItsEnd(gameState.enemies[i], gameState'.enemies[i])]_vars


(* The recharge of the dash charges, under SpecDash *)
RECURSIVE TimersRun(_, _, _)
\* the player after n timer steps in which no dash starts
TimersRun(p, profile, n) ==
    IF n = 0 THEN p ELSE TimersRun(Timers(p, profile), profile, n - 1)

RECURSIVE RechargesWithin(_, _, _)
\* dashCount reaches 0 within n further timer steps in which no dash starts;
\* the timers never raise dashCount, so it is looked at every
\* DASH_SHORT_COOLDOWN steps
RechargesWithin(p, profile, n) ==
    \/ p.dashCount = 0
    \/ /\ n >= DASH_SHORT_COOLDOWN
       /\ \E q \in {TimersRun(p, profile, DASH_SHORT_COOLDOWN)} :
              RechargesWithin(q, profile, n - DASH_SHORT_COOLDOWN)

(* C27: dash charges always recharge: from every reachable state, over a run *)
(* of non-frozen ticks in which no dash starts, dashCount returns to 0       *)
(* within 120 ticks, also when a profile merge changed maxDashes while       *)
(* charges were spent.                                                       *)
C27_DashRecharges ==
    RechargesWithin(gameState.player, physicsProfile, DASH_LONG_COOLDOWN)


----------------------------------------------------------------------------
(* SpecPinch: the idle player on the floor between a Walker in sword reach
   on the left and a wall on the right; the player stands idle until the
   Walker's swing is about to come and may then dash, into the wall and
   within the Walker's reach *)

PinchTicks == 56

PinchFrom == 40

PinchEvents == 2

Pinch ==
    [MobLevel(<<EnemyOf("WALKER", "left", PX(950), PX(540), TRUE)>>) EXCEPT
        !.platforms = @ \o <<Rect(PX(1040), PX(300), PX(60), PX(300))>>]

InitPinch == InitWith(Pinch)

NextPinch ==
    \/ ticks < PinchTicks /\ Loop(FrameDelta)
    \/ Tick
    \/ ticks >= PinchFrom /\ events < PinchEvents /\ KeyDown("DASH")
    \/ ticks >= PinchFrom /\ events < PinchEvents /\ KeyUp("DASH")

SpecPinch == InitPinch /\ [][NextPinch]_vars


(* C28: a dash is invincible for its whole span: at every tick boundary      *)
(* isDashing implies dashTimer > 0 and invincibilityTimer >= dashTimer, and  *)
(* player.health never decreases on a tick that ends with isDashing true.    *)
C28_DashInvincible ==
    /\ [](gameState.player.isDashing =>
            /\ gameState.player.dashTimer > 0
            /\ gameState.player.invincibilityTimer >= gameState.player.dashTimer)
    /\ [][(IsTick /\ gameState'.player.isDashing) =>
            gameState'.player.health >= gameState.player.health]_vars

\* the player is dashing inside the Walker's live swing
C28_Witness ==
    /\ gameState.player.isDashing
    /\ gameState.player.dashTimer < physicsProfile.dashDurationFrames
    /\ WalkerSwingHits(gameState.enemies[1], gameState.player)


(* C29: invincibilityTimer is lowered only by the once-per-tick decrement,   *)
(* so no action replaces a running invincibility window by a shorter one,    *)
(* and after damagePlayer the player takes no further damage during the next *)
(* PLAYER_I_FRAMES non-frozen ticks: a player who has taken two swings of    *)
(* the Walker (15 each) has lived through more than PLAYER_I_FRAMES ticks.   *)
C29_IFramesOnlyCountDown ==
    [][/\ gameState'.player.invincibilityTimer < gameState.player.invincibilityTimer =>
            /\ IsTick
            /\ gameState'.player.invincibilityTimer = gameState.player.invincibilityTimer - 1
       /\ gameState'.player.health <= gameState'.player.maxHealth - 2 * 15 =>
            ticks' > PLAYER_I_FRAMES]_vars


----------------------------------------------------------------------------
(* SpecMoves: the three attacks a fresh ATTACK press can start, with nothing
   in reach: standard (neither dashing nor JUMP held), air-launcher (JUMP
   held), dash-attack (dashing) *)

MovesTicks == 5

MovesEvents == 7

MovesKeys == {"ATTACK", "JUMP", "DASH"}

InitMoves == InitWith(EmptyRoom)

NextMoves ==
    \/ ticks < MovesTicks /\ Loop(FrameDelta)
    \/ Tick
    \/ \E c \in MovesKeys : events < MovesEvents /\ KeyDown(c)
    \/ events < MovesEvents /\ KeyUp("ATTACK")
    \/ \E patch \in ComboPatches : events < MovesEvents /\ Merge(patch)

SpecMoves == InitMoves /\ [][NextMoves]_vars


\* the attack a sampled press starts, by the branch of the combat block
PressStartsDashAttack == SamplesAttackPress /\ gameState.player.isDashing

PressStartsLauncher ==
    /\ SamplesAttackPress
    /\ ~gameState.player.isDashing
    /\ Timers(gameState.player, physicsProfile).attackCooldownTimer = 0
    /\ inputState.JUMP

PressStartsStandard ==
    /\ SamplesAttackPress
    /\ ~gameState.player.isDashing
    /\ Timers(gameState.player, physicsProfile).attackCooldownTimer = 0
    /\ ~inputState.JUMP

(* C30: starting an air-launcher (fresh ATTACK press with JUMP held) or a    *)
(* dash-attack (fresh ATTACK press while dashing) leaves comboStep and       *)
(* comboWindowTimer as the tick's countdown left them and opens no combo     *)
(* window; only a standard attack advances or resets comboStep and sets      *)
(* comboWindowTimer to attackCooldownFrames + comboWindowFrames.             *)
C30_OnlyStandardAttackChains ==
    [][/\ (PressStartsLauncher \/ PressStartsDashAttack) =>
            /\ gameState'.player.comboStep = gameState.player.comboStep
            /\ gameState'.player.comboWindowTimer =
                   Timers(gameState.player, physicsProfile).comboWindowTimer
       /\ PressStartsStandard =>
            /\ gameState'.player.comboStep =
                   IF Timers(gameState.player, physicsProfile).comboWindowTimer > 0
                   THEN (gameState.player.comboStep + 1) % 3 ELSE 0
            /\ gameState'.player.comboWindowTimer =
                   physicsProfile.attackCooldownFrames + physicsProfile.comboWindowFrames
       /\ gameState'.player.comboStep # gameState.player.comboStep =>
            PressStartsStandard
       /\ gameState'.player.comboWindowTimer > gameState.player.comboWindowTimer =>
            PressStartsStandard]_vars

\* a dash-attack has just started in the open window of the chain's second hit
C30_Witness ==
    /\ gameState.player.activeAnim = "ATTACK_DASH_A"
    /\ gameState.player.attackTimer = physicsProfile.attackDurationFrames
    /\ gameState.player.comboStep = 1
    /\ gameState.player.comboWindowTimer > 0


----------------------------------------------------------------------------
(* SpecDuel: the player on SANDBOX_LEVEL's floor facing one enemy in sword
   reach, a Walker, a Turret or a Flyer, each in range to attack; the player
   may strike once *)

DuelTicks == 90

DuelEvents == 2

Duel(type) == MobLevel(<<EnemyOf(type, "foe", PX(1040), PX(540), FALSE)>>)

InitDuel == \E type \in {"WALKER", "TURRET", "FLYER"} : InitWith(Duel(type))

NextDuel ==
    \/ ticks < DuelTicks /\ Loop(FrameDelta)
    \/ Tick
    \/ events < DuelEvents /\ KeyDown("ATTACK")
    \/ events < DuelEvents /\ KeyUp("ATTACK")

SpecDuel == InitDuel /\ [][NextDuel]_vars


\* the enemy of the Duel level, before and after a step
Foe == gameState.enemies[1]

FoeAfter == gameState'.enemies[1]

LosesHealth == gameState'.player.health < gameState.player.health

(* C31: a Walker's swing can damage the player only while the Walker is in   *)
(* ATTACK with chargeTimer = 0 and 5 < attackDurationTimer < 18; a Walker    *)
(* enters ATTACK from CHASE with chargeTimer = ATTACK_CHARGE, the charge     *)
(* falls by at most one per enemy update and the swing timer stays 0 while   *)
(* it runs, so at least ATTACK_CHARGE updates pass before the first update   *)
(* that can damage; a Walker knocked into HIT deals no damage and leaves HIT *)
(* for CHASE only, so the attack it was knocked out of never lands.          *)
C31_WalkerSwingWindow ==
    [][Foe.type = "WALKER" =>
        /\ LosesHealth =>
            /\ FoeAfter.state = "ATTACK"
            /\ FoeAfter.chargeTimer = 0
            /\ FoeAfter.attackDurationTimer > 5
            /\ FoeAfter.attackDurationTimer < 18
        /\ (FoeAfter.state = "ATTACK" /\ Foe.state # "ATTACK") =>
            /\ Foe.state = "CHASE"
            /\ FoeAfter.chargeTimer = ATTACK_CHARGE
            /\ FoeAfter.attackDurationTimer = 0
        /\ (FoeAfter.state = "ATTACK" /\ Foe.state = "ATTACK") =>
            /\ FoeAfter.chargeTimer \in {Foe.chargeTimer, Foe.chargeTimer - 1}
            /\ FoeAfter.chargeTimer > 0 => FoeAfter.attackDurationTimer = 0
        /\ (Foe.state = "HIT" \/ FoeAfter.state = "HIT") => ~LosesHealth
        /\ Foe.state = "HIT" => FoeAfter.state \in {"HIT", "CHASE"}]_vars

\* a Walker struck during its charge has charged anew and its swing has landed
C31_Witness ==
    /\ Foe.type = "WALKER"
    /\ Foe.health < Foe.maxHealth
    /\ Foe.state = "ATTACK"
    /\ Foe.attackDurationTimer = 17
    /\ gameState.player.health = gameState.player.maxHealth - 15
    /\ gameState.player.invincibilityTimer = PLAYER_I_FRAMES
    /\ ticks > 2 * ATTACK_CHARGE + 3


\* a live enemy in HIT that this step's attack does not strike again
StaysStruck(i) ==
    /\ ~gameState.enemies[i].isDead
    /\ gameState.enemies[i].state = "HIT"
    /\ gameState'.enemies[i].health >= gameState.enemies[i].health

(* C32: every live enemy of any type that a player attack puts into HIT      *)
(* returns to CHASE once its hitTimer, set to 15 by the hit, reaches 0: in   *)
(* HIT the timer is within 1..15 at every tick boundary, and every tick that *)
(* updates the enemies lowers it by one or, when it reaches 0, returns the   *)
(* enemy to CHASE; so no enemy stays in HIT for more than 15 updates after   *)
(* the last hit.                                                             *)
C32_StruckEnemyRecovers ==
    /\ [](\A i \in DOMAIN gameState.enemies :
            (~gameState.enemies[i].isDead /\ gameState.enemies[i].state = "HIT") =>
                /\ gameState.enemies[i].hitTimer >= 1
                /\ gameState.enemies[i].hitTimer <= ENEMY_HIT_FRAMES)
    /\ [][EnemiesUpdated =>
            \A i \in DOMAIN gameState.enemies :
                StaysStruck(i) =>
                    /\ gameState'.enemies[i].hitTimer = gameState.enemies[i].hitTimer - 1
                    /\ gameState'.enemies[i].state =
                           IF gameState'.enemies[i].hitTimer = 0 THEN "CHASE" ELSE "HIT"]_vars

\* a struck Flyer is back in CHASE, its hit timer run out
C32_Witness ==
    /\ Foe.type = "FLYER"
    /\ Foe.health < Foe.maxHealth
    /\ Foe.state = "CHASE"
    /\ Foe.hitTimer = 0


(* The spawn timer, under SpecYard *)

(* C33: after a spawner spawns an enemy its spawn timer equals               *)
(* spawnInterval; the timer changes otherwise only by falling by one on a    *)
(* tick where the owned count is below the cap, and a spawn comes only on    *)
(* the update that takes the timer to 0 or below, so the next spawn needs    *)
(* spawnInterval further updates below the cap; the timer is never negative  *)
(* at a tick boundary.                                                       *)
C33_SpawnTimerRestarts ==
    /\ [](\A k \in DOMAIN gameState.spawners : gameState.spawners[k].spawnTimer >= 0)
    /\ [][\A k \in DOMAIN gameState.spawners :
            IF NewlyOwned(k) # {}
            THEN /\ gameState.spawners[k].spawnTimer <= 1
                 /\ gameState'.spawners[k].spawnTimer = gameState.spawners[k].spawnInterval
            ELSE \/ gameState'.spawners[k].spawnTimer = gameState.spawners[k].spawnTimer
                 \/ /\ gameState'.spawners[k].spawnTimer
                          = gameState.spawners[k].spawnTimer - 1
                    /\ gameState'.spawners[k].spawnTimer > 0
                    /\ Cardinality(StillOwned(k)) < gameState.spawners[k].maxEnemies]_vars

\* 'pen' has just spawned its second Walker, spawnInterval updates after the
\* first
C33_Witness ==
    /\ Len(gameState.spawners[1].activeEnemyIds) = 2
    /\ gameState.spawners[1].spawnTimer = gameState.spawners[1].spawnInterval
    /\ gameState.spawners[1].spawnInterval > 1
    /\ ticks = gameState.spawners[1].spawnInterval + 1


----------------------------------------------------------------------------
(* SpecChain: sword chains on the passive Walker of the training room; the
   profile edit and the JUMP and DASH keys come before the first tick, the
   ATTACK key is pressed and released at any time *)

ChainTicks == 22

ChainEvents == 6

InitChain == InitWith(TrainingRoom)

NextChain ==
    \/ ticks < ChainTicks /\ Loop(FrameDelta)
    \/ Tick
    \/ events < ChainEvents /\ KeyDown("ATTACK")
    \/ events < ChainEvents /\ KeyUp("ATTACK")
    \/ \E c \in {"JUMP", "DASH"} : ticks = 0 /\ events < ChainEvents /\ KeyDown(c)
    \/ \E patch \in ComboPatches : ticks = 0 /\ events < ChainEvents /\ Merge(patch)

SpecChain == InitChain /\ [][NextChain]_vars


\* the player as the hit detection of this tick's press-edge block finds it
Attacker ==
    AttackStart(JumpBuffer(Timers(gameState.player, physicsProfile),
                           physicsProfile, inputState),
                physicsProfile, inputState)

\* the tick's press-edge block lands a hit
LandsHit ==
    /\ SamplesAttackPress
    /\ Attacker.isAttacking
    /\ \E i \in DOMAIN gameState.enemies :
           EnemyInHitbox(AttackHitbox(Attacker), gameState.enemies[i])

(* C34: a landed hit sets hitStopTimer to 8 for an air-launcher or a         *)
(* dash-attack, to 10 for a standard combo finisher (comboStep = 2) and to 3 *)
(* for any other standard hit; each tick that starts with hitStopTimer > 0   *)
(* is frozen and lowers it by one, so exactly that many ticks are frozen,    *)
(* and the tick after them runs normally; hitStopTimer is within 0..10 in    *)
(* every reachable state.                                                    *)
C34_HitStopByAttack ==
    /\ [](gameState.hitStopTimer \in 0..10)
    /\ [][IsTick =>
            IF gameState.hitStopTimer > 0
            THEN gameState' = [gameState EXCEPT !.hitStopTimer = @ - 1]
            ELSE /\ gameState'.hitStopTimer =
                       IF ~LandsHit THEN 0
                       ELSE IF Attacker.activeAnim \in {"ATTACK_AIR_A", "ATTACK_DASH_A"}
                            THEN 8
                       ELSE IF Attacker.comboStep = 2 THEN 10 ELSE 3
                 /\ gameState'.player.lastAttackInput = inputState.ATTACK
                 /\ gameState'.player.lastJumpInput = inputState.JUMP
                 /\ gameState'.player.attackTimer =
                       IF SamplesAttackPress THEN Attacker.attackTimer
                       ELSE Timers(gameState.player, physicsProfile).attackTimer]_vars

\* the ten frozen ticks of a finisher are over and the next tick has run
C34_Witness ==
    /\ gameState.hitStopTimer = 0
    /\ gameState.player.comboStep = 2
    /\ gameState.player.comboCount = 3
    /\ gameState.player.attackTimer = physicsProfile.attackDurationFrames - 1


----------------------------------------------------------------------------
(* SpecBrawl: the player on SANDBOX_LEVEL's floor with two passive Walkers
   in sword reach ahead and an attacking Walker in reach behind; the player
   may strike once *)

BrawlTicks == 112

BrawlEvents == 2

Brawl ==
    MobLevel(<<EnemyOf("WALKER", "left", PX(950), PX(540), TRUE),
               Walker("dummy1", PX(1040), PX(540), 100, "IDLE", FALSE, 0, 0, 0),
               Walker("dummy2", PX(1085), PX(540), 100, "IDLE", FALSE, 0, 0, 0)>>)

InitBrawl == InitWith(Brawl)

NextBrawl ==
    \/ ticks < BrawlTicks /\ Loop(FrameDelta)
    \/ Tick
    \/ events < BrawlEvents /\ KeyDown("ATTACK")
    \/ events < BrawlEvents /\ KeyUp("ATTACK")

SpecBrawl == InitBrawl /\ [][NextBrawl]_vars

(* C35: each hit resolution that hits at least one enemy increases           *)
(* comboCount by exactly 1, however many enemies it hits, and sets           *)
(* comboDropTimer to comboKeepAliveFrames; at every tick boundary            *)
(* comboCount > 0 implies comboDropTimer > 0, and comboCount changes         *)
(* otherwise only by falling to 0, when comboDropTimer, which every          *)
(* non-frozen tick without a hit lowers by one, runs out, or when            *)
(* damagePlayer is applied, which resets it at once.                         *)
C35_ComboCountKeptAlive ==
    /\ [](/\ gameState.player.comboCount > 0 => gameState.player.comboDropTimer > 0
          /\ gameState.player.comboDropTimer <= physicsProfile.comboKeepAliveFrames)
    /\ [][/\ LosesHealth => gameState'.player.comboCount = 0
          /\ (IsTick /\ RunsFullTick(gameState, level.killPlaneY) /\ ~LandsHit
                  /\ gameState.player.comboDropTimer > 0) =>
                gameState'.player.comboDropTimer = gameState.player.comboDropTimer - 1
          /\ (LandsHit /\ ~LosesHealth) =>
                /\ gameState'.player.comboCount
                       = Timers(gameState.player, physicsProfile).comboCount + 1
                /\ gameState'.player.comboDropTimer = physicsProfile.comboKeepAliveFrames
          /\ (~LandsHit /\ ~LosesHealth) =>
                \/ /\ gameState'.player.comboCount = gameState.player.comboCount
                   /\ gameState'.player.comboDropTimer
                          \in {gameState.player.comboDropTimer,
                               gameState.player.comboDropTimer - 1}
                \/ /\ gameState'.player.comboCount = 0
                   /\ gameState.player.comboDropTimer = 1
                   /\ gameState'.player.comboDropTimer = 0]_vars

\* one swing has struck both passive Walkers and counted once; the Walker
\* behind has then struck the player
C35_Witness ==
    /\ gameState.enemies[2].health < gameState.enemies[2].maxHealth
    /\ gameState.enemies[3].health < gameState.enemies[3].maxHealth
    /\ gameState.player.health < gameState.player.maxHealth
    /\ gameState.player.comboCount = 0
    /\ gameState.player.comboDropTimer > 0


----------------------------------------------------------------------------
(* SpecHop: the player drops onto the floor beside the wall of Shaft, then
   jumps, cuts the jump short and dashes *)

HopTicks == 24
HopEvents == 3

InitHop == InitWith(Shaft)

NextHop ==
    \/ ticks < HopTicks /\ Loop(FrameDelta)
    \/ Tick
    \/ \E c \in {"JUMP", "DASH"} : events < HopEvents /\ KeyDown(c)
    \/ \E c \in {"JUMP", "LEFT"} : events < HopEvents /\ KeyUp(c)
    \/ events = 0 /\ ticks = 0 /\ KeyDown("LEFT")

SpecHop == InitHop /\ [][NextHop]_vars

\* the player as the tick's call of movePlayer receives it
Mover(crit) ==
    LET b == BeforeMove(gameState, physicsProfile, inputState, crit).player
    IN  IF b.isDashing /\ b.dashTimer > 0 THEN b
        ELSE Jumping(BeforeJumping(b, physicsProfile, inputState, level.platforms),
                     physicsProfile, inputState)

\* the tick returns from the dash branch right after movePlayer
DashShortCircuits ==
    /\ IsTick
    /\ RunsFullTick(gameState, level.killPlaneY)
    /\ \E crit \in CritRolls(gameState, inputState) :
           DashMoves(BeforeMove(gameState, physicsProfile, inputState, crit))

\* the player's feet rest on the top edge of a platform
OnPlatformTop(p) ==
    \E i \in 1..Len(level.platforms) :
        /\ p.position.y + PLAYER_H = level.platforms[i].y
        /\ p.position.x < level.platforms[i].x + level.platforms[i].width
        /\ p.position.x + PLAYER_W > level.platforms[i].x

\* movePlayer, entered with a downward velocity, put the player on a platform
LandsOnPlatform(crit) ==
    /\ Mover(crit).velocity.y > 0
    /\ movePlayer(Mover(crit), level.platforms).isGrounded
    /\ movePlayer(Mover(crit), level.platforms).velocity.y = 0
    /\ OnPlatformTop(movePlayer(Mover(crit), level.platforms))

\* C36: at every tick boundary a grounded player has the double jump, is not
\* in a jump arc and is not wall sliding; isGrounded changes only in a tick
\* that reaches movePlayer, such a tick ends grounded only when movePlayer,
\* entered with a downward velocity, put the player on top of a platform, and
\* a tick that returns from the dash branch ends airborne.
C36_GroundedFlags ==
    /\ [](gameState.player.isGrounded
            => /\ gameState.player.canDoubleJump
               /\ ~gameState.player.isJumping
               /\ ~gameState.player.isWallSliding)
    /\ [][/\ gameState'.player.isGrounded # gameState.player.isGrounded
             => IsTick /\ RunsFullTick(gameState, level.killPlaneY)
          /\ (IsTick /\ RunsFullTick(gameState, level.killPlaneY)
                 /\ gameState'.player.isGrounded)
             => \A crit \in CritRolls(gameState, inputState) : LandsOnPlatform(crit)
          /\ DashShortCircuits => ~gameState'.player.isGrounded]_vars

\* the player stands on the floor again after a dash, whose ticks ended
\* airborne, with the double jump at hand
C36_Witness ==
    /\ gameState.player.isGrounded
    /\ gameState.player.canDoubleJump
    /\ ~gameState.player.isDashing
    /\ gameState.player.dashCount > 0
    /\ ticks > 10


----------------------------------------------------------------------------
(* Coyote time, under SpecLedge: the ticks that follow a tick which ended
   with the player grounded, computed with updatePhysics from that state *)

\* the Math.random() draws of a tick on which nothing is drawn
NoRolls(s) ==
    [crit     |-> [i \in 1..Len(s.enemies) |-> FALSE],
     cooldown |-> [i \in 1..(Len(s.enemies) + Len(s.spawners)) |-> 60],
     spawn    |-> [k \in 1..Len(s.spawners) |-> NoSpawnDraw],
     hover    |-> [x |-> 0, y |-> 0]]

JumpReleased == [inputState EXCEPT !.JUMP = FALSE]
JumpPressed == [inputState EXCEPT !.JUMP = TRUE]

\* the game state n ticks later, JUMP released and the other keys as they are
RECURSIVE Fall(_, _)
Fall(s, n) ==
    IF n = 0 THEN s
    ELSE updatePhysics(Fall(s, n - 1), physicsProfile, JumpReleased, level,
                       NoRolls(Fall(s, n - 1)))

\* the tick ended with the player in the air, no jump fired, nothing frozen
FellFreely(s) ==
    /\ ~s.player.isGrounded
    /\ ~s.player.isJumping
    /\ ~s.player.isWallSliding
    /\ ~s.player.isDashing
    /\ ~s.player.isAttacking
    /\ s.player.canDoubleJump
    /\ s.hitStopTimer = 0

\* the current state ends tick t0: grounded, and the next k - 1 ticks leave
\* the player falling; tick t0 + k runs in full and samples a fresh press
LeftGroundFor(k) ==
    /\ gameState.player.isGrounded
    /\ ~gameState.player.isDashing
    /\ ~gameState.player.isAttacking
    /\ gameState.player.jumpBufferTimer = 0
    /\ gameState.hitStopTimer = 0
    /\ \A j \in 1..(k - 1) : FellFreely(Fall(gameState, j))
    /\ ~Fall(gameState, k - 1).player.lastJumpInput
    /\ RunsFullTick(Fall(gameState, k - 1), level.killPlaneY)

\* the player of tick t0 + k as its jump branches find it, JUMP freshly pressed
PressedOn(k) ==
    BeforeJumping(BeforeMove(Fall(gameState, k - 1), physicsProfile, JumpPressed,
                             NoRolls(gameState).crit).player,
                  physicsProfile, JumpPressed, level.platforms)

\* the longest delay examined
CoyoteSpan == 8

\* C37: let t0 be the last tick that ended with the player grounded, the
\* player then leaving the ground without jumping; a fresh jump press sampled
\* on tick t0 + k fires the ground jump (velocity.y = -jumpForce, the double
\* jump still available, coyoteTimer 0) for every 1 <= k <= coyoteFrames and
\* does not fire it for k > coyoteFrames.
C37_CoyoteWindow ==
    \A k \in 1..CoyoteSpan :
        LeftGroundFor(k) =>
            /\ (JumpBranch(PressedOn(k)) = "ground") <=> (k <= physicsProfile.coyoteFrames)
            /\ JumpBranch(PressedOn(k)) = "ground" =>
                 /\ Jumping(PressedOn(k), physicsProfile, JumpPressed).velocity.y
                        = -physicsProfile.jumpForce
                 /\ Jumping(PressedOn(k), physicsProfile, JumpPressed).canDoubleJump
                 /\ Jumping(PressedOn(k), physicsProfile, JumpPressed).coyoteTimer = 0

\* the same with the window the code keeps: the press fires the ground jump
\* iff k < coyoteFrames
CoyoteWindowInCode ==
    \A k \in 1..CoyoteSpan :
        LeftGroundFor(k) =>
            /\ (JumpBranch(PressedOn(k)) = "ground") <=> (k < physicsProfile.coyoteFrames)
            /\ JumpBranch(PressedOn(k)) = "double" <=> (k >= physicsProfile.coyoteFrames)


----------------------------------------------------------------------------
(* Entity separation after resolveEntityCollisions, under SpecBrawl *)

\* a and b overlap by more than one pixel on both axes (the Overlap2 operators
\* return twice the penetration); fixed-point rounding of a push stays below it
OverlapsClearly(a, w1, h1, b, w2, h2) ==
    Overlap2X(a, w1, b, w2) > 2 * PX(1) /\ Overlap2Y(a, h1, b, h2) > 2 * PX(1)

EnemiesOverlap(s, i, j) ==
    /\ ~s.enemies[i].isDead
    /\ ~s.enemies[j].isDead
    /\ OverlapsClearly(s.enemies[i], s.enemies[i].width, s.enemies[i].height,
                       s.enemies[j], s.enemies[j].width, s.enemies[j].height)

PlayerOverlapsEnemy(s, i) ==
    /\ ~s.enemies[i].isDead
    /\ OverlapsClearly(s.player, PLAYER_W, PLAYER_H,
                       s.enemies[i], s.enemies[i].width, s.enemies[i].height)

\* C38: after resolveEntityCollisions on every full tick no two live enemies
\* overlap each other and no live enemy overlaps the player.
C38_EntitiesSeparated ==
    [][EnemiesUpdated =>
          /\ \A i, j \in 1..Len(gameState'.enemies) :
                 i < j => ~EnemiesOverlap(gameState', i, j)
          /\ \A i \in 1..Len(gameState'.enemies) :
                 ~PlayerOverlapsEnemy(gameState', i)]_vars


----------------------------------------------------------------------------
(* SpecCull: the training dummy of SANDBOX_LEVEL and a spawned Walker, both
   in sword reach of the player, who strikes repeatedly *)

CullTicks == 18
CullEvents == 8

Cull ==
    MobLevel(<<Walker("training_dummy_1", PX(1040), PX(540), 9999, "IDLE", FALSE,
                      0, 0, 0),
               Walker("spawn_1", PX(1085), PX(540), 60, "CHASE", FALSE,
                      PX(300), PX(800), PX(60))>>)

InitCull == InitWith(Cull)

NextCull ==
    \/ ticks < CullTicks /\ Loop(FrameDelta)
    \/ Tick
    \/ events < CullEvents /\ KeyDown("ATTACK")
    \/ events < CullEvents /\ KeyUp("ATTACK")
    \/ \E patch \in ComboPatches : ticks = 0 /\ events < CullEvents /\ Merge(patch)

SpecCull == InitCull /\ [][NextCull]_vars

----------------------------------------------------------------------------
(* The stationary dummy of the tutorial level, under SpecChain *)

\* a Walker configured as 'dummy1': no patrol, no detection, no attack
StationaryDummy(e) ==
    /\ e.type = "WALKER"
    /\ e.patrolRange = 0
    /\ e.detectionRange = 0
    /\ e.attackRange = 0
    /\ e.maxHealth <= DUMMY_HEALTH

\* C40: a Walker configured as a stationary dummy never attacks and has no
\* horizontal velocity of its own: while alive, outside the HIT state (the
\* knockback of a player hit) its velocity.x is 0, also after it has
\* recovered from HIT.
C40_DummyStaysPut ==
    \A i \in 1..Len(gameState.enemies) :
        (StationaryDummy(gameState.enemies[i]) /\ ~gameState.enemies[i].isDead)
            => /\ gameState.enemies[i].state # "ATTACK"
               /\ gameState.enemies[i].state # "HIT"
                      => gameState.enemies[i].velocity.x = 0

\* the part of C40 the code keeps: the dummy never enters ATTACK and never
\* harms the player
DummyNeverAttacks ==
    /\ \A i \in 1..Len(gameState.enemies) :
           StationaryDummy(gameState.enemies[i]) => gameState.enemies[i].state # "ATTACK"
    /\ gameState.player.health = gameState.player.maxHealth

====
